---- MODULE Spec2Model ----
(***************************************************************************)
(* A model of version-migrate: the Migrator registry with its chain walk   *)
(* (migrator.rs) and the temp-file + rename write protocol of FileStorage  *)
(* and DirStorage (storage.rs, dir_storage.rs).                            *)
(***************************************************************************)
EXTENDS Naturals, Sequences, FiniteSets, TLC

VARIABLES
    paths,                \* Migrator.paths: entity name -> EntityMigrationPath
    domain_savers,        \* Migrator.domain_savers: entity name -> DomainSavers
    default_version_key,  \* Migrator.default_version_key (Option<String>)
    default_data_key,     \* Migrator.default_data_key (Option<String>)
    mres,                 \* the Migrator call in flight and what it returned
    dir,                  \* the storage directory: file name -> inode (0: no entry)
    inodes,               \* inode -> the chunks the file holds
    st,                   \* per FileStorage instance: its document and its save
    pidOf,                \* per FileStorage instance: std::process::id()
    active,               \* the FileStorage instances that are in use
    retry_count,          \* AtomicWriteConfig.retry_count
    cleanup_tmp_files,    \* AtomicWriteConfig.cleanup_tmp_files
    nsaves,               \* save calls made so far
    storage,              \* the Storage value a session calls: "dir" or "file"
    format,               \* strategy.format of that Storage value
    files,                \* DirStorage base directory: file name -> content
    root,                 \* FileStorage.config.root, the document in memory
    disk,                 \* the file a FileStorage was opened on: its content
    extension,            \* strategy.extension of a DirStorage
    calls                 \* the calls the session made, with what they returned

migVars == <<paths, domain_savers, default_version_key, default_data_key, mres>>
sessVars == <<storage, format, extension, files, root, disk, calls>>
storVars == <<dir, inodes, st, pidOf, active, retry_count, cleanup_tmp_files, nsaves,
              sessVars>>

(***************************************************************************)
(* Bounds of the model.                                                    *)
(***************************************************************************)
MaxPathLen == 3     \* longest builder chain from::<V>().step::<..>()...
MaxRetry == 2       \* largest retry_count a strategy is given
MaxSaves == 2       \* save calls in one run
NChunks == 2        \* write() calls that write_all needs for one document
MaxBatch == 2       \* elements of a batch handed to load_vec
MaxCalls == 3       \* calls one session makes on its Storage value

(***************************************************************************)
(* Values.  Option::None, serde_json::Value (strings and objects), Result. *)
(***************************************************************************)
None == "<none>"

JStr(s) == [k |-> "str", s |-> s]
JObj(m) == [k |-> "obj", m |-> m]
EmptyMap == [x \in {} |-> JStr("")]
MapInsert(m, key, v) == (key :> v) @@ m
MapRemove(m, key) == [x \in DOMAIN m \ {key} |-> m[x]]

Ok(v) == [ok |-> TRUE, v |-> v]
Err(kind, info) == [ok |-> FALSE, kind |-> kind, info |-> info]

(***************************************************************************)
(* The versioned types and the domain type of the test programs: a         *)
(* Versioned impl supplies VERSION, VERSION_KEY, DATA_KEY; MigratesTo,     *)
(* IntoDomain and FromDomain are the user's conversions.                   *)
(***************************************************************************)
TypeIds == {"V1_0_0", "V1_1_0", "V2_0_0", "VBeta"}

VERSION(t) ==
    CASE t = "V1_0_0" -> "1.0.0"
      [] t = "V1_1_0" -> "1.1.0"
      [] t = "V2_0_0" -> "2.0.0"
      [] t = "VBeta"  -> "beta"

VERSION_KEY(t) == IF t = "VBeta" THEN "schema_version" ELSE "version"
DATA_KEY(t) == IF t = "VBeta" THEN "payload" ELSE "data"

FieldsOf(t) ==
    CASE t = "V1_0_0" -> {"id"}
      [] t = "V1_1_0" -> {"id", "description"}
      [] t = "V2_0_0" -> {"id", "description", "done"}
      [] t = "VBeta"  -> {"id"}

DomainFields == {"id", "description"}

DefaultOf(f) == JStr("none")

\* <V as MigratesTo<Next>>::migrate: carries the shared fields over and
\* fills the new ones with their default.
Migrate(from, to, v) ==
    [f \in FieldsOf(to) |-> IF f \in FieldsOf(from) THEN v[f] ELSE DefaultOf(f)]

\* <V as IntoDomain<D>>::into_domain
IntoDomain(t, v) ==
    [f \in DomainFields |-> IF f \in FieldsOf(t) THEN v[f] ELSE DefaultOf(f)]

\* <V as FromDomain<D>>::from_domain
FromDomain(t, d) ==
    [f \in FieldsOf(t) |-> IF f \in DomainFields THEN d[f] ELSE DefaultOf(f)]

\* serde_json::from_value::<V>: an object holding every field of V as a
\* string deserializes to V (unknown fields are ignored), anything else fails.
FromValue(fields, value) ==
    IF value.k = "obj"
       /\ fields \subseteq DOMAIN value.m
       /\ \A f \in fields : value.m[f].k = "str"
    THEN Ok([f \in fields |-> value.m[f]])
    ELSE Err("DeserializationError", [what |-> "shape"])

\* serde_json::to_value of a struct
ToValue(struct) == JObj(struct)

(***************************************************************************)
(* semver::Version::parse and its order, on the version strings in use.    *)
(***************************************************************************)
SemverParse(s) ==
    CASE s = "1.0.0" -> <<1, 0, 0>>
      [] s = "1.1.0" -> <<1, 1, 0>>
      [] s = "2.0.0" -> <<2, 0, 0>>
      [] s = "9.9.9" -> <<9, 9, 9>>
      [] OTHER -> <<>>

SemverValid(s) == SemverParse(s) # <<>>

SemverLess(a, b) ==
    \/ a[1] < b[1]
    \/ a[1] = b[1] /\ a[2] < b[2]
    \/ a[1] = b[1] /\ a[2] = b[2] /\ a[3] < b[3]

SemverLE(a, b) == a = b \/ SemverLess(a, b)

(***************************************************************************)
(* MigrationPathBuilder: define(entity) [.with_keys(vk, dk)] .from::<V>()  *)
(* .step::<Next>()* .into::<D>() | .into_with_save::<D>().  A step closure *)
(* is kept as the pair of types it captures, finalize and the savers as    *)
(* the terminal type they capture.                                         *)
(***************************************************************************)
EmptySteps == [x \in {} |-> [from |-> "", to |-> ""]]

\* Migrator::define, with_keys (custom = <<None, None>> when not called), from
BuilderFrom(entity, custom, t) ==
    [entity |-> entity,
     steps |-> EmptySteps,
     versions |-> <<VERSION(t)>>,
     version_key |-> VERSION_KEY(t),
     data_key |-> DATA_KEY(t),
     custom_version_key |-> custom[1],
     custom_data_key |-> custom[2],
     cur |-> t]

\* a step that files the closure under the version it leads to
BuilderStepKeyedByNext(b, next) ==
    [b EXCEPT !.steps = (VERSION(next) :> [from |-> b.cur, to |-> next]) @@ b.steps,
              !.versions = Append(b.versions, VERSION(next)),
              !.cur = next]

\* step::<Next>: steps.insert(V::VERSION, closure); versions.push(Next::VERSION)
BuilderStep(b, next) ==
    [b EXCEPT !.steps = (VERSION(b.cur) :> [from |-> b.cur, to |-> next]) @@ b.steps,
              !.versions = Append(b.versions, VERSION(next)),
              !.cur = next]

\* into::<D> (save = FALSE) and into_with_save::<D> (save = TRUE)
BuilderInto(b, save) ==
    [entity |-> b.entity,
     inner |-> [steps |-> b.steps,
                finalize |-> b.cur,
                versions |-> b.versions,
                version_key |-> b.version_key,
                data_key |-> b.data_key],
     versions |-> b.versions,
     custom_version_key |-> b.custom_version_key,
     custom_data_key |-> b.custom_data_key,
     save_fn |-> IF save THEN b.cur ELSE None,
     save_flat_fn |-> IF save THEN b.cur ELSE None]

RECURSIVE BuildSteps(_, _, _)
BuildSteps(b, chain, i) ==
    IF i > Len(chain) THEN b ELSE BuildSteps(BuilderStep(b, chain[i]), chain, i + 1)

\* The whole builder expression for a chain of types.
BuildPath(entity, custom, chain, save) ==
    BuilderInto(BuildSteps(BuilderFrom(entity, custom, chain[1]), chain, 2), save)

(***************************************************************************)
(* Migrator::register and its validation.                                  *)
(***************************************************************************)
RECURSIVE OrderingFrom(_, _, _)

\* [String]::join(sep): the elements in order, sep between neighbours
RECURSIVE JoinFrom(_, _, _, _)
JoinFrom(strs, sep, i, acc) ==
    IF i > Len(strs) THEN acc
    ELSE JoinFrom(strs, sep, i + 1, IF i = 1 THEN strs[i] ELSE acc \o sep \o strs[i])

join(strs, sep) == JoinFrom(strs, sep, 1, "")

\* validate_migration_path with the ordering check ahead of the cycle check
validate_ordering_first(entity, versions) ==
    LET o == OrderingFrom(entity, versions, 1)
    IN  IF ~o.ok THEN o
        ELSE IF \E i, j \in 1..Len(versions) : i < j /\ versions[i] = versions[j]
        THEN Err("CircularMigrationPath",
                 [entity |-> entity, path |-> JoinFrom(versions, " -> ", 1, "")])
        ELSE Ok("unit")

\* check_circular_path: a version that is already in `seen` is a duplicate.
check_circular_path(entity, versions) ==
    IF \E i, j \in 1..Len(versions) : i < j /\ versions[i] = versions[j]
    THEN Err("CircularMigrationPath",
             [entity |-> entity, path |-> join(versions, " -> ")])
    ELSE Ok("unit")

\* check_version_ordering: for i in 0..len-1, parse both, require next > current.
OrderingFrom(entity, versions, i) ==
    IF i + 1 > Len(versions) THEN Ok("unit")
    ELSE LET current == versions[i]
             next == versions[i + 1]
         IN  IF ~SemverValid(current)
             THEN Err("DeserializationError", [what |-> "semver", version |-> current])
             ELSE IF ~SemverValid(next)
             THEN Err("DeserializationError", [what |-> "semver", version |-> next])
             ELSE IF SemverLE(SemverParse(next), SemverParse(current))
             THEN Err("InvalidVersionOrder",
                      [entity |-> entity, from |-> current, to |-> next])
             ELSE OrderingFrom(entity, versions, i + 1)

\* an ordering check that names the last pair out of order, not the first
check_ordering_last_pair(entity, versions) ==
    LET o == OrderingFrom(entity, versions, 1)
    IN  IF o.ok \/ o.kind # "InvalidVersionOrder" THEN o
        ELSE LET bad == {i \in 1..(Len(versions) - 1) :
                            /\ SemverValid(versions[i]) /\ SemverValid(versions[i + 1])
                            /\ SemverLE(SemverParse(versions[i + 1]),
                                        SemverParse(versions[i]))}
                 last == CHOOSE i \in bad : \A j \in bad : j <= i
             IN  Err("InvalidVersionOrder",
                     [entity |-> entity, from |-> versions[last],
                      to |-> versions[last + 1]])

check_version_ordering(entity, versions) == OrderingFrom(entity, versions, 1)

validate_migration_path(entity, versions) ==
    LET c == check_circular_path(entity, versions)
    IN  IF ~c.ok THEN c ELSE check_version_ordering(entity, versions)

\* ResolveKey with the registry-wide default consulted before the path's override
ResolveKeyDefaultFirst(custom, default, fromType) ==
    IF default # None THEN default
    ELSE IF custom # None THEN custom
    ELSE fromType

\* Option::or_else(..).unwrap_or_else(..): path custom > migrator default > type
ResolveKey(custom, default, fromType) ==
    IF custom # None THEN custom
    ELSE IF default # None THEN default
    ELSE fromType

\* register that inserts the path before it looks at the validation result
register_insert_first(ps, savers, dvk, ddk, path) ==
    LET v == validate_migration_path(path.entity, path.versions)
        final_path ==
            [steps |-> path.inner.steps,
             finalize |-> path.inner.finalize,
             versions |-> path.versions,
             version_key |-> ResolveKey(path.custom_version_key, dvk, path.inner.version_key),
             data_key |-> ResolveKey(path.custom_data_key, ddk, path.inner.data_key)]
    IN  [paths |-> (path.entity :> final_path) @@ ps,
         domain_savers |-> savers,
         result |-> v]

\* Migrator::register: the registry after the call, and what the call returns.
register(ps, savers, dvk, ddk, path) ==
    LET v == validate_migration_path(path.entity, path.versions)
        final_path ==
            [steps |-> path.inner.steps,
             finalize |-> path.inner.finalize,
             versions |-> path.versions,
             version_key |-> ResolveKey(path.custom_version_key, dvk, path.inner.version_key),
             data_key |-> ResolveKey(path.custom_data_key, ddk, path.inner.data_key)]
    IN  IF ~v.ok
        THEN [paths |-> ps, domain_savers |-> savers, result |-> v]
        ELSE [paths |-> (path.entity :> final_path) @@ ps,
              domain_savers |->
                  IF path.save_fn # None /\ path.save_flat_fn # None
                  THEN (path.entity :> [save_fn |-> path.save_fn,
                                        save_flat_fn |-> path.save_flat_fn]) @@ savers
                  ELSE savers,
              result |-> Ok("unit")]

\* Migrator::get_latest_version
get_latest_version(ps, entity) ==
    IF entity \in DOMAIN ps
    THEN LET vs == ps[entity].versions
         IN  IF Len(vs) > 0 THEN vs[Len(vs)] ELSE None
    ELSE None

(***************************************************************************)
(* The text handed to load and returned by save: serde_json::from_str and  *)
(* to_string are a codec, so a text is the value it encodes, or garbage    *)
(* that does not parse.                                                    *)
(***************************************************************************)
Text(v) == [k |-> "json", v |-> v]
Garbage == [k |-> "garbage", v |-> JStr("")]

from_str(text) ==
    IF text.k = "json" THEN Ok(text.v)
    ELSE Err("DeserializationError", [what |-> "json"])

to_string(v) == Text(v)

(***************************************************************************)
(* The chain walk of load_from / load_flat_from.                           *)
(***************************************************************************)
\* A step closure: from_value::<V>, migrate, to_value
ApplyStep(step, value) ==
    LET from_value == FromValue(FieldsOf(step.from), value)
    IN  IF ~from_value.ok
        THEN Err("DeserializationError", [what |-> "step", version |-> VERSION(step.from)])
        ELSE Ok(ToValue(Migrate(step.from, step.to, from_value.v)))

\* The finalize closure: from_value::<V>, into_domain, to_value
ApplyFinalize(t, value) ==
    LET versioned == FromValue(FieldsOf(t), value)
    IN  IF ~versioned.ok
        THEN Err("DeserializationError", [what |-> "final"])
        ELSE Ok(ToValue(IntoDomain(t, versioned.v)))

\* NextVersion that jumps to the newest version instead of the successor
NextVersionLatest(versions, current_version) ==
    IF current_version = versions[Len(versions)] THEN None ELSE versions[Len(versions)]

\* path.versions.iter().position(|v| v == current_version), then idx + 1 if
\* it is in range; None stands for the `_ => break` arm.
NextVersion(versions, current_version) ==
    LET hits == {i \in 1..Len(versions) : versions[i] = current_version}
    IN  IF hits = {} THEN None
        ELSE LET idx == CHOOSE i \in hits : \A j \in hits : i <= j
             IN  IF idx + 1 <= Len(versions) THEN versions[idx + 1] ELSE None

\* Walk that leaves the loop after its first step
WalkOneStep(path, current_version, current_data, trace, fuel) ==
    IF current_version \notin DOMAIN path.steps
    THEN [res |-> Ok(current_data), trace |-> trace]
    ELSE [res |-> ApplyStep(path.steps[current_version], current_data),
          trace |-> Append(trace, [at |-> current_version,
                                   step |-> path.steps[current_version]])]

\* Walk that calls a step a second time when it returned an error
RECURSIVE WalkRetrying(_, _, _, _, _)
WalkRetrying(path, current_version, current_data, trace, fuel) ==
    IF current_version \notin DOMAIN path.steps
    THEN [res |-> Ok(current_data), trace |-> trace]
    ELSE IF fuel = 0
    THEN [res |-> Err("Diverges", [what |-> "walk"]), trace |-> trace]
    ELSE LET step == path.steps[current_version]
             out == ApplyStep(step, current_data)
             called == [at |-> current_version, step |-> step]
             next == NextVersion(path.versions, current_version)
         IN  IF ~out.ok THEN [res |-> out, trace |-> trace \o <<called, called>>]
             ELSE IF next = None THEN [res |-> out, trace |-> Append(trace, called)]
             ELSE WalkRetrying(path, next, out.v, Append(trace, called), fuel - 1)

\* while let Some(migrate_fn) = path.steps.get(&current_version) { ... }
\* trace lists the step closures invoked, in order.  fuel stops the walk of
\* a path on which the loop would not end.
RECURSIVE Walk(_, _, _, _, _)
Walk(path, current_version, current_data, trace, fuel) ==
    IF current_version \notin DOMAIN path.steps
    THEN [res |-> Ok(current_data), trace |-> trace]
    ELSE IF fuel = 0
    THEN [res |-> Err("Diverges", [what |-> "walk"]), trace |-> trace]
    ELSE LET step == path.steps[current_version]
             out == ApplyStep(step, current_data)
             trace2 == Append(trace, [at |-> current_version, step |-> step])
             next == NextVersion(path.versions, current_version)
         IN  IF ~out.ok THEN [res |-> out, trace |-> trace2]
             ELSE IF next = None THEN [res |-> out, trace |-> trace2]
             ELSE Walk(path, next, out.v, trace2, fuel - 1)

\* The tail shared by load_from and load_flat_from: walk, finalize, and
\* from_value::<D> of the domain value.  tag is the version read from the
\* document, trace the steps invoked, finalized the finalize calls made.
WalkAndFinalize(path, current_version, current_data) ==
    LET w == Walk(path, current_version, current_data, <<>>, Len(path.versions) + 1)
    IN  IF ~w.res.ok
        THEN [result |-> w.res, tag |-> current_version, trace |-> w.trace,
              finalized |-> <<>>]
        ELSE LET domain_value == ApplyFinalize(path.finalize, w.res.v)
             IN  [result |-> IF domain_value.ok
                             THEN FromValue(DomainFields, domain_value.v)
                             ELSE domain_value,
                  tag |-> current_version,
                  trace |-> w.trace,
                  finalized |-> <<path.finalize>>]

NotWalked(result) ==
    [result |-> result, tag |-> None, trace |-> <<>>, finalized |-> <<>>]

\* Migrator::load_from
load_from(ps, entity, value) ==
    IF entity \notin DOMAIN ps
    THEN NotWalked(Err("EntityNotFound", [entity |-> entity]))
    ELSE LET path == ps[entity]
         IN  IF value.k # "obj"
             THEN NotWalked(Err("DeserializationError", [what |-> "object"]))
             ELSE IF path.version_key \notin DOMAIN value.m
                     \/ value.m[path.version_key].k # "str"
             THEN NotWalked(Err("DeserializationError", [what |-> "version"]))
             ELSE IF path.data_key \notin DOMAIN value.m
             THEN NotWalked(Err("DeserializationError", [what |-> "data"]))
             ELSE WalkAndFinalize(path, value.m[path.version_key].s,
                                  value.m[path.data_key])

\* Migrator::load
load(ps, entity, json) ==
    LET data == from_str(json)
    IN  IF ~data.ok THEN NotWalked(data) ELSE load_from(ps, entity, data.v)

\* Migrator::load_flat_from
load_flat_from(ps, entity, value) ==
    IF entity \notin DOMAIN ps
    THEN NotWalked(Err("EntityNotFound", [entity |-> entity]))
    ELSE LET path == ps[entity]
         IN  IF value.k # "obj"
             THEN NotWalked(Err("DeserializationError", [what |-> "object"]))
             ELSE IF path.version_key \notin DOMAIN value.m
             THEN NotWalked(Err("DeserializationError", [what |-> "version"]))
             ELSE IF value.m[path.version_key].k # "str"
             THEN NotWalked(Err("DeserializationError", [what |-> "version type"]))
             ELSE WalkAndFinalize(path, value.m[path.version_key].s,
                                  JObj(MapRemove(value.m, path.version_key)))

\* Migrator::load_flat
load_flat(ps, entity, json) ==
    LET data == from_str(json)
    IN  IF ~data.ok THEN NotWalked(data) ELSE load_flat_from(ps, entity, data.v)

(***************************************************************************)
(* Batch loads: data.into_iter().map(|item| load(item)).collect() into a   *)
(* Result<Vec<D>, _>.  The iterator is lazy and collect stops at the first *)
(* Err; processed counts the elements the closure was called on.           *)
(***************************************************************************)
JArr(items) == [k |-> "arr", a |-> items]

\* |item| self.load_from(entity, item) / |item| self.load_flat_from(entity, item)
load_item(ps, entity, item, flat) ==
    IF flat THEN load_flat_from(ps, entity, item).result
            ELSE load_from(ps, entity, item).result

\* A collect that leaves out the elements that fail and goes on
collect_skip_failed(ps, entity, data, flat, i, acc) ==
    LET rs == [j \in 1..Len(data) |-> load_item(ps, entity, data[j], flat)]
        oks == SelectSeq(rs, LAMBDA r : r.ok)
    IN  [result |-> Ok([j \in 1..Len(oks) |-> oks[j].v]), processed |-> Len(data)]

\* .map(..).collect::<Result<Vec<D>, MigrationError>>() from element i on
RECURSIVE collect(_, _, _, _, _, _)
collect(ps, entity, data, flat, i, acc) ==
    IF i > Len(data)
    THEN [result |-> Ok(acc), processed |-> Len(data)]
    ELSE LET r == load_item(ps, entity, data[i], flat)
         IN  IF ~r.ok THEN [result |-> r, processed |-> i]
             ELSE collect(ps, entity, data, flat, i + 1, Append(acc, r.v))

\* Migrator::load_vec_from
load_vec_from(ps, entity, data) == collect(ps, entity, data, FALSE, 1, <<>>)

\* Migrator::load_vec_flat_from
load_vec_flat_from(ps, entity, data) == collect(ps, entity, data, TRUE, 1, <<>>)

\* serde_json::from_str::<Vec<serde_json::Value>>
from_str_vec(json) ==
    IF json.k = "json" /\ json.v.k = "arr" THEN Ok(json.v.a)
    ELSE Err("DeserializationError", [what |-> "json array"])

\* Migrator::load_vec
load_vec(ps, entity, json) ==
    LET data == from_str_vec(json)
    IN  IF ~data.ok THEN [result |-> data, processed |-> 0]
        ELSE load_vec_from(ps, entity, data.v)

\* Migrator::load_vec_flat
load_vec_flat(ps, entity, json) ==
    LET data == from_str_vec(json)
    IN  IF ~data.ok THEN [result |-> data, processed |-> 0]
        ELSE load_vec_flat_from(ps, entity, data.v)

(***************************************************************************)
(* save_domain / save_domain_flat and the savers into_with_save builds.    *)
(***************************************************************************)
\* save_fn of into_with_save::<D> for terminal type t
save_fn(t, domain_value, vkey, dkey) ==
    LET domain == FromValue(DomainFields, domain_value)
    IN  IF ~domain.ok THEN Err("DeserializationError", [what |-> "domain"])
        ELSE LET data_value == ToValue(FromDomain(t, domain.v))
                 map == MapInsert(MapInsert(EmptyMap, vkey, JStr(VERSION(t))),
                                  dkey, data_value)
             IN  Ok(to_string(JObj(map)))

\* save_flat_fn of into_with_save::<D> for terminal type t
save_flat_fn(t, domain_value, vkey) ==
    LET domain == FromValue(DomainFields, domain_value)
    IN  IF ~domain.ok THEN Err("DeserializationError", [what |-> "domain"])
        ELSE LET data_value == ToValue(FromDomain(t, domain.v))
                 obj == MapInsert(data_value.m, vkey, JStr(VERSION(t)))
             IN  Ok(to_string(JObj(obj)))

\* Migrator::save_domain
save_domain(ps, savers, entity_name, entity) ==
    IF entity_name \notin DOMAIN savers
    THEN Err("EntityNotFound", [entity |-> entity_name, what |-> "no saver"])
    ELSE IF entity_name \notin DOMAIN ps
    THEN Err("EntityNotFound", [entity |-> entity_name, what |-> "no path"])
    ELSE save_fn(savers[entity_name].save_fn, ToValue(entity),
                 ps[entity_name].version_key, ps[entity_name].data_key)

\* Migrator::save_domain_flat
save_domain_flat(ps, savers, entity_name, entity) ==
    IF entity_name \notin DOMAIN savers
    THEN Err("EntityNotFound", [entity |-> entity_name, what |-> "no saver"])
    ELSE IF entity_name \notin DOMAIN ps
    THEN Err("EntityNotFound", [entity |-> entity_name, what |-> "no path"])
    ELSE save_flat_fn(savers[entity_name].save_flat_fn, ToValue(entity),
                      ps[entity_name].version_key)

\* Migrator::save::<T>: the wrapper is keyed by T's own constants
save(t, data) ==
    LET data_value == ToValue(data)
        map == MapInsert(MapInsert(EmptyMap, VERSION_KEY(t), JStr(VERSION(t))),
                         DATA_KEY(t), data_value)
    IN  Ok(to_string(JObj(map)))

(***************************************************************************)
(* Inputs of the Migrator calls.                                           *)
(***************************************************************************)
Entities == {"task"}              \* names paths are registered under
LookupNames == {"task", "ghost"}  \* names handed to load and save_domain

Chains == UNION {[1..n -> TypeIds] : n \in 1..MaxPathLen}

\* with_keys not called, a plain override, and an override that gives both
\* keys the name of a payload field
CustomKeys == {<<None, None>>, <<"custom_version", "custom_data">>, <<"id", "id">>}

DefaultVersionKeys == {None, "global_version"}
DefaultDataKeys == {None, "global_data"}

DomainValues ==
    {[id |-> JStr(i), description |-> JStr(d)] : i \in {"a", "b"}, d \in {"x", "none"}}

\* values of versioned type t handed to save
VersionedValues(t) == [FieldsOf(t) -> {JStr("a"), JStr("x")}]

DocVersions == {"1.0.0", "1.1.0", "2.0.0", "beta", "9.9.9"}

DocPayloads ==
    {EmptyMap,
     [id |-> JStr("a")],
     [id |-> JStr("a"), description |-> JStr("x")],
     [id |-> JStr("a"), description |-> JStr("x"), done |-> JStr("y")]}

DocKeyPairs ==
    ({"version", "schema_version", "global_version"}
         \X {"data", "payload", "global_data"})
    \cup {<<"custom_version", "custom_data">>, <<"id", "id">>}

NestedDocs ==
    {JObj(MapInsert(MapInsert(EmptyMap, kp[1], JStr(v)), kp[2], JObj(p))) :
        kp \in DocKeyPairs, v \in DocVersions, p \in DocPayloads}

DocVersionKeys ==
    {"version", "schema_version", "global_version", "custom_version", "id"}

FlatDocs ==
    {JObj(MapInsert(p, vk, JStr(v))) :
        vk \in DocVersionKeys, v \in DocVersions, p \in DocPayloads}

LoadTexts(flat) ==
    {Garbage, Text(JStr("scalar"))}
    \cup {Text(d) : d \in (IF flat THEN FlatDocs ELSE NestedDocs)}

\* Elements of a batch: two that load on the usual paths, two whose payload
\* lacks every field, and one that is no object.
BatchKeyPairs == {<<"version", "data">>, <<"custom_version", "custom_data">>}

BatchPayloads ==
    {<<"1.0.0", [id |-> JStr("a")]>>,
     <<"1.1.0", [id |-> JStr("b"), description |-> JStr("x")]>>,
     <<"1.0.0", EmptyMap>>,
     <<"1.1.0", EmptyMap>>}

BatchItems(flat, kp) ==
    {JStr("scalar")}
    \cup {IF flat THEN JObj(MapInsert(vp[2], kp[1], JStr(vp[1])))
                  ELSE JObj(MapInsert(MapInsert(EmptyMap, kp[1], JStr(vp[1])),
                                      kp[2], JObj(vp[2]))) : vp \in BatchPayloads}

BatchTexts(flat) ==
    {Garbage, Text(JStr("scalar"))}
    \cup {Text(JArr(items)) :
            items \in UNION {[1..n -> BatchItems(flat, kp)] :
                                n \in 0..MaxBatch, kp \in BatchKeyPairs}}

(***************************************************************************)
(* The Migrator as a state machine: one call at a time, mres holds the     *)
(* call and what it returned until the caller takes the result.            *)
(***************************************************************************)
Idle == [op |-> "idle"]

MigInit ==
    /\ paths = [e \in {} |-> None]
    /\ domain_savers = [e \in {} |-> None]
    /\ default_version_key \in DefaultVersionKeys
    /\ default_data_key \in DefaultDataKeys
    /\ mres = Idle

\* a call through &self that clears the registry
RegistryCleared ==
    /\ paths' = [e \in {} |-> None]
    /\ domain_savers' = [e \in {} |-> None]
    /\ UNCHANGED <<default_version_key, default_data_key>>

\* load, load_vec, save_domain and save take &self: the registry stays
RegistryKept ==
    UNCHANGED <<paths, domain_savers, default_version_key, default_data_key>>

\* migrator.register(Migrator::define(entity)...)
Register ==
    /\ mres = Idle
    /\ \E entity \in Entities, custom \in CustomKeys, chain \in Chains, withSave \in BOOLEAN :
        LET path == BuildPath(entity, custom, chain, withSave)
            r == register(paths, domain_savers, default_version_key,
                          default_data_key, path)
        IN  /\ paths' = r.paths
            /\ domain_savers' = r.domain_savers
            /\ mres' = [op |-> "register", entity |-> entity, chain |-> chain,
                        path |-> path, result |-> r.result]
    /\ UNCHANGED <<default_version_key, default_data_key>>
    /\ UNCHANGED storVars

\* migrator.load(entity, json) / migrator.load_flat(entity, json)
Load ==
    /\ mres = Idle
    /\ \E entity \in LookupNames, flat \in BOOLEAN :
        \E json \in LoadTexts(flat) :
            LET r == IF flat THEN load_flat(paths, entity, json)
                             ELSE load(paths, entity, json)
            IN  mres' = [op |-> "load", entity |-> entity, flat |-> flat,
                         json |-> json, result |-> r.result, tag |-> r.tag,
                         trace |-> r.trace,
                         finalized |-> r.finalized]
    /\ RegistryKept
    /\ UNCHANGED storVars

\* migrator.load_vec(entity, json) / migrator.load_vec_flat(entity, json)
LoadVec ==
    /\ mres = Idle
    /\ \E entity \in LookupNames, flat \in BOOLEAN :
        \E json \in BatchTexts(flat) :
            LET r == IF flat THEN load_vec_flat(paths, entity, json)
                             ELSE load_vec(paths, entity, json)
            IN  mres' = [op |-> "load_vec", entity |-> entity, flat |-> flat,
                         json |-> json, result |-> r.result,
                         processed |-> r.processed]
    /\ RegistryKept
    /\ UNCHANGED storVars

\* migrator.save_domain(entity, d) / migrator.save_domain_flat(entity, d)
SaveDomain ==
    /\ mres = Idle
    /\ \E entity \in LookupNames, flat \in BOOLEAN, d \in DomainValues :
        LET r == IF flat THEN save_domain_flat(paths, domain_savers, entity, d)
                         ELSE save_domain(paths, domain_savers, entity, d)
        IN  mres' = [op |-> "save_domain", entity |-> entity, flat |-> flat,
                     domain |-> d, result |-> r]
    /\ RegistryKept
    /\ UNCHANGED storVars

\* migrator.save(v) for a value v of versioned type t
Save ==
    /\ mres = Idle
    /\ \E t \in TypeIds : \E data \in VersionedValues(t) :
        mres' = [op |-> "save", type |-> t, data |-> data, result |-> save(t, data)]
    /\ RegistryKept
    /\ UNCHANGED storVars

\* The call returns and the caller takes the result.
Return ==
    /\ mres # Idle
    /\ mres' = Idle
    /\ RegistryKept
    /\ UNCHANGED storVars

MigNext == Register \/ Load \/ LoadVec \/ SaveDomain \/ Save \/ Return

(***************************************************************************)
(* FileStorage: a whole document kept in memory and written back with      *)
(* temp file + rename (storage.rs).  The directory maps file names to      *)
(* inodes; an inode holds the chunks written to it so far.                 *)
(***************************************************************************)
Writers == {"w1", "w2"}
Pids == {1, 2}
DeadPid == 0
Keys == {"k1", "k2"}

Target == "config.json"
TempNameOfPid(p) ==
    CASE p = 0 -> ".config.json.tmp.0"
      [] p = 1 -> ".config.json.tmp.1"
      [] p = 2 -> ".config.json.tmp.2"
TempNames == {TempNameOfPid(p) : p \in Pids \cup {DeadPid}}
Names == {Target} \cup TempNames
starts_with_prefix(name) == name \in TempNames

\* the document a FileStorage holds: key -> value
EmptyDoc == [k \in {} |-> "v0"]
OldDoc == [k \in Keys |-> "v0"]

\* content.as_bytes(), as the chunks write_all hands to write()
Serialize(doc) == [i \in 1..NChunks |-> [doc |-> doc, part |-> i]]
Hole == [doc |-> EmptyDoc, part |-> 0]
IsComplete(bytes) ==
    /\ Len(bytes) = NChunks
    /\ \A i \in 1..NChunks : bytes[i] = [doc |-> bytes[1].doc, part |-> i]

\* what fs::read_to_string(name) returns in the current state
FileView(name) ==
    IF dir[name] = 0
    THEN [exists |-> FALSE, bytes |-> <<>>]
    ELSE [exists |-> TRUE, bytes |-> inodes[dir[name]]]
Written(doc) == [exists |-> TRUE, bytes |-> Serialize(doc)]

\* write() at a file offset: overwrite, append, or append after a hole
WriteAt(bytes, pos, chunk) ==
    IF pos <= Len(bytes)
    THEN [bytes EXCEPT ![pos] = chunk]
    ELSE bytes \o [i \in 1..(pos - 1 - Len(bytes)) |-> Hole] \o <<chunk>>

\* FileStorage::get_temp_path: .{file_name}.tmp.{std::process::id()}
get_temp_path_in_place(w) == Target
get_temp_path(w) == TempNameOfPid(pidOf[w])

IoError(op, attempts) == Err("IoError", [op |-> op, attempts |-> attempts])
Panic == Err("panic", [op |-> "rename", attempts |-> 0])
NoResult == Err("none", [op |-> "none", attempts |-> 0])

NoView == [exists |-> FALSE, bytes |-> <<>>]
\* sleeps, renamed, exhausted, cleaned, pre and persisted record what a save did
IdleStorage(doc, persisted) ==
    [pc |-> "idle", config |-> doc, content |-> <<>>, tmp |-> Target,
     fd |-> 0, off |-> 0, attempt |-> 0, sleeps |-> 0, last_error |-> FALSE,
     renamed |-> FALSE, exhausted |-> FALSE, cleaned |-> FALSE,
     pre |-> NoView, result |-> NoResult, persisted |-> persisted]

(***************************************************************************)
(* File names of a DirStorage.  An id, an extension and a file name are    *)
(* the sequence of their characters.                                       *)
(***************************************************************************)
\* the byte of an ASCII character
CharCode(c) ==
    CASE c = "-" -> 45 [] c = "." -> 46 [] c = "/" -> 47 [] c = "0" -> 48
      [] c = "B" -> 66 [] c = "_" -> 95 [] c = "a" -> 97 [] c = "d" -> 100
      [] c = "j" -> 106 [] c = "l" -> 108 [] c = "m" -> 109 [] c = "n" -> 110
      [] c = "o" -> 111 [] c = "p" -> 112 [] c = "s" -> 115 [] c = "t" -> 116

\* char::is_ascii_alphanumeric
is_ascii_alphanumeric(c) ==
    \/ CharCode(c) \in 48..57
    \/ CharCode(c) \in 65..90
    \/ CharCode(c) \in 97..122

\* ids handed to save, load, exists and delete: "", "a", "B" and "a/"
Ids == {<<>>, <<"a">>, <<"B">>, <<"a", "/">>}

\* DirStorageStrategy.extension (Option<String>) and the extensions in use
NoExtension == [some |-> FALSE, v |-> <<>>]
SomeExtension(e) == [some |-> TRUE, v |-> e]
Extensions == {NoExtension, SomeExtension(<<"d", "a", "t">>)}

\* DirStorageStrategy::get_extension
get_extension(fmt, ext) ==
    IF ext.some THEN ext.v
    ELSE IF fmt = "Json" THEN <<"j", "s", "o", "n">>
    ELSE <<"t", "o", "m", "l">>

\* an encode_id that takes every id as it is
encode_id_unchecked(id) == Ok(id)

\* DirStorage::encode_id with FilenameEncoding::Direct
encode_id(id) ==
    IF \A i \in 1..Len(id) :
           is_ascii_alphanumeric(id[i]) \/ id[i] = "-" \/ id[i] = "_"
    THEN Ok(id)
    ELSE Err("FilenameEncoding", [id |-> id])

\* DirStorage::id_to_path: format!("{}.{}", encoded_id, extension) in base_path
id_to_path(fmt, ext, id) ==
    LET encoded_id == encode_id(id)
    IN  IF ~encoded_id.ok THEN encoded_id
        ELSE Ok(encoded_id.v \o <<".">> \o get_extension(fmt, ext))

\* the temp file a dead process left behind for a target: .{name}.tmp.0
StaleTempOf(name) == <<".">> \o name \o <<".", "t", "m", "p", ".", "0">>

\* the names entity files can have, and every name of the base directory
EntityFileNames ==
    {id_to_path(fmt, ext, id).v :
        fmt \in {"Json", "Toml"}, ext \in Extensions,
        id \in {i \in Ids : encode_id(i).ok}}

FileNames == EntityFileNames \cup {StaleTempOf(n) : n \in EntityFileNames}

\* Path::extension and Path::file_stem: the name is split at its last '.',
\* unless it has none or only the one it starts with
LastDot(name) ==
    LET dots == {i \in 1..Len(name) : name[i] = "."}
    IN  IF dots = {} THEN 0 ELSE CHOOSE i \in dots : \A j \in dots : j <= i

path_extension(name) ==
    IF LastDot(name) <= 1 THEN [some |-> FALSE, v |-> <<>>]
    ELSE [some |-> TRUE, v |-> SubSeq(name, LastDot(name) + 1, Len(name))]

path_file_stem(name) ==
    IF LastDot(name) <= 1 THEN name ELSE SubSeq(name, 1, LastDot(name) - 1)

\* <str as Ord>::cmp: byte by byte, a proper prefix comes first
RECURSIVE StrLess(_, _)
StrLess(a, b) ==
    IF Len(b) = 0 THEN FALSE
    ELSE IF Len(a) = 0 THEN TRUE
    ELSE IF CharCode(a[1]) # CharCode(b[1]) THEN CharCode(a[1]) < CharCode(b[1])
    ELSE StrLess(Tail(a), Tail(b))

\* a sort that leaves the list as it is
sort_nothing(ids) == ids

\* ids.sort(): the least element first, then the rest sorted
RECURSIVE sort(_)
sort(ids) ==
    IF Len(ids) = 0 THEN <<>>
    ELSE LET least == CHOOSE i \in 1..Len(ids) :
                         \A j \in 1..Len(ids) :
                             ~StrLess(ids[j], ids[i]) /\ (ids[j] = ids[i] => i <= j)
         IN  <<ids[least]>>
             \o sort(SubSeq(ids, 1, least - 1) \o SubSeq(ids, least + 1, Len(ids)))

\* entity files of a DirStorage, by file name; Absent: no such file
Absent == [k |-> "absent", v |-> JStr("")]
NoFiles == [n \in FileNames |-> Absent]

\* no session: an empty base directory, an empty document, no file, no call
SessQuiet ==
    /\ storage = "dir"
    /\ format = "Json"
    /\ extension = NoExtension
    /\ files = NoFiles
    /\ root = EmptyMap
    /\ disk = Absent
    /\ calls = <<>>

\* FileStorage::new: the document is read once, when the instance is built.
\* Instances with one pid are threads of one process.
StorInitWith(instances) ==
    /\ \E hasFile \in BOOLEAN, stale \in BOOLEAN :
        /\ inodes = (IF hasFile THEN <<Serialize(OldDoc)>> ELSE <<>>)
                    \o (IF stale THEN <<SubSeq(Serialize(OldDoc), 1, 1)>> ELSE <<>>)
        /\ dir = [n \in Names |->
                    IF n = Target /\ hasFile THEN 1
                    ELSE IF n = TempNameOfPid(DeadPid) /\ stale
                         THEN (IF hasFile THEN 2 ELSE 1)
                    ELSE 0]
        /\ st = [w \in Writers |-> IdleStorage(IF hasFile THEN OldDoc ELSE EmptyDoc, FALSE)]
    /\ active = instances
    /\ pidOf \in {[w \in Writers |-> 1], [w \in Writers |-> IF w = "w1" THEN 1 ELSE 2]}
    /\ retry_count \in 0..MaxRetry
    /\ cleanup_tmp_files \in BOOLEAN
    /\ nsaves = 0
    /\ SessQuiet

StorFrame == UNCHANGED <<pidOf, active, retry_count, cleanup_tmp_files, sessVars>>

\* FileStorage::update on an instance whose Migrator has the entity
\* registered: root[key] is replaced, in memory only
Update(w, key) ==
    /\ st[w].pc = "idle"
    /\ st[w].config # (key :> w) @@ st[w].config
    /\ st' = [st EXCEPT ![w].config = (key :> w) @@ st[w].config,
                        ![w].persisted = FALSE]
    /\ UNCHANGED <<dir, inodes, nsaves>> /\ StorFrame /\ UNCHANGED migVars

\* FileStorage::save, up to the point where the temp file is opened
SaveBegin(w) ==
    /\ st[w].pc = "idle"
    /\ nsaves < MaxSaves
    /\ nsaves' = nsaves + 1
    /\ st' = [st EXCEPT ![w] =
                [IdleStorage(st[w].config, FALSE) EXCEPT
                    !.pc = "create",
                    !.content = Serialize(st[w].config),
                    !.tmp = get_temp_path(w),
                    !.pre = FileView(Target)]]
    /\ UNCHANGED <<dir, inodes>> /\ StorFrame /\ UNCHANGED migVars

\* a save that goes on to the rename when a step on the temp file failed
FailThenRename(w, op) ==
    st' = [st EXCEPT ![w].pc = "rename"]

Fail(w, op) ==
    st' = [st EXCEPT ![w].pc = "done", ![w].result = IoError(op, 0)]

\* File::create(&tmp_path): a new file, or the existing one truncated
CreateTmp(w) ==
    /\ st[w].pc = "create"
    /\ LET name == st[w].tmp IN
       IF dir[name] # 0
       THEN /\ inodes' = [inodes EXCEPT ![dir[name]] = <<>>]
            /\ dir' = dir
            /\ st' = [st EXCEPT ![w].pc = "write", ![w].fd = dir[name]]
       ELSE /\ inodes' = Append(inodes, <<>>)
            /\ dir' = [dir EXCEPT ![name] = Len(inodes) + 1]
            /\ st' = [st EXCEPT ![w].pc = "write", ![w].fd = Len(inodes) + 1]
    /\ UNCHANGED nsaves /\ StorFrame /\ UNCHANGED migVars

CreateFails(w) ==
    /\ st[w].pc = "create"
    /\ Fail(w, "create")
    /\ UNCHANGED <<dir, inodes, nsaves>> /\ StorFrame /\ UNCHANGED migVars

\* tmp_file.write_all(content.as_bytes()): one write() per chunk
WriteChunk(w) ==
    /\ st[w].pc = "write"
    /\ LET pos == st[w].off + 1 IN
        /\ inodes' = [inodes EXCEPT ![st[w].fd] = WriteAt(@, pos, st[w].content[pos])]
        /\ st' = [st EXCEPT ![w].off = pos,
                            ![w].pc = IF pos = NChunks THEN "sync" ELSE "write"]
    /\ UNCHANGED <<dir, nsaves>> /\ StorFrame /\ UNCHANGED migVars

WriteFails(w) ==
    /\ st[w].pc = "write"
    /\ Fail(w, "write")
    /\ UNCHANGED <<dir, inodes, nsaves>> /\ StorFrame /\ UNCHANGED migVars

\* tmp_file.sync_all(); drop(tmp_file)
Sync(w) ==
    /\ st[w].pc = "sync"
    /\ st' = [st EXCEPT ![w].pc = "rename", ![w].fd = 0]
    /\ UNCHANGED <<dir, inodes, nsaves>> /\ StorFrame /\ UNCHANGED migVars

SyncFails(w) ==
    /\ st[w].pc = "sync"
    /\ Fail(w, "sync")
    /\ UNCHANGED <<dir, inodes, nsaves>> /\ StorFrame /\ UNCHANGED migVars

\* atomic_rename: the Err arm of one attempt
rename_failed_returns_ok(s, count) == [s EXCEPT !.pc = "done", !.result = Ok("unit")]
\* an Err arm that sleeps after every failed attempt
rename_failed_always_sleeps(s, count) ==
    [s EXCEPT !.attempt = @ + 1, !.last_error = TRUE, !.sleeps = @ + 1]
\* last_error = Some(e); thread::sleep(10ms) if attempt + 1 < retry_count
rename_failed(s, count) ==
    [s EXCEPT !.attempt = @ + 1, !.last_error = TRUE,
              !.sleeps = IF s.attempt + 1 < count THEN @ + 1 ELSE @]

\* atomic_rename: after `for attempt in 0..retry_count`; last_error.unwrap()
rename_exhausted(s, count) ==
    [s EXCEPT !.pc = "done", !.exhausted = TRUE,
              !.result = IF s.last_error THEN IoError("rename", count) ELSE Panic]

\* FileStorage::save after atomic_rename returned Ok
after_rename(s, cleanup) ==
    IF cleanup THEN [s EXCEPT !.pc = "cleanup", !.renamed = TRUE]
    ELSE [s EXCEPT !.pc = "done", !.renamed = TRUE, !.result = Ok("unit")]

\* fs::rename(tmp_path, &self.path) succeeds: one step, the name moves
RenameOk(w) ==
    /\ st[w].pc = "rename"
    /\ st[w].attempt < retry_count
    /\ dir[st[w].tmp] # 0
    /\ dir' = [n \in Names |->
                IF n = Target THEN dir[st[w].tmp]
                ELSE IF n = st[w].tmp THEN 0
                ELSE dir[n]]
    /\ st' = [st EXCEPT ![w] = after_rename(st[w], cleanup_tmp_files)]
    /\ UNCHANGED <<inodes, nsaves>> /\ StorFrame /\ UNCHANGED migVars

\* fs::rename fails: the operating system refuses, or the temp name is gone
RenameFails(w) ==
    /\ st[w].pc = "rename"
    /\ st[w].attempt < retry_count
    /\ st' = [st EXCEPT ![w] = rename_failed(st[w], retry_count)]
    /\ UNCHANGED <<dir, inodes, nsaves>> /\ StorFrame /\ UNCHANGED migVars

RenameExhausted(w) ==
    /\ st[w].pc = "rename"
    /\ st[w].attempt >= retry_count
    /\ st' = [st EXCEPT ![w] = rename_exhausted(st[w], retry_count)]
    /\ UNCHANGED <<dir, inodes, nsaves>> /\ StorFrame /\ UNCHANGED migVars

\* a cleanup whose failed removals become the result of save
cleanup_surfacing_errors(w) ==
    /\ st[w].pc = "cleanup"
    /\ LET matching == {n \in Names : starts_with_prefix(n) /\ dir[n] # 0} IN
       \E removed \in SUBSET matching :
        /\ dir' = [n \in Names |-> IF n \in removed THEN 0 ELSE dir[n]]
        /\ st' = [st EXCEPT ![w].pc = "done",
                            ![w].result = IF removed = matching THEN Ok("unit")
                                          ELSE IoError("cleanup", 0),
                            ![w].cleaned = (removed = matching)]
    /\ UNCHANGED <<inodes, nsaves>> /\ StorFrame /\ UNCHANGED migVars

\* cleanup_temp_files: every entry whose name starts with the prefix is
\* removed, read_dir and remove_file errors ignored
cleanup_temp_files(w) ==
    /\ st[w].pc = "cleanup"
    /\ LET matching == {n \in Names : starts_with_prefix(n) /\ dir[n] # 0} IN
       \E removed \in SUBSET matching :
        /\ dir' = [n \in Names |-> IF n \in removed THEN 0 ELSE dir[n]]
        /\ st' = [st EXCEPT ![w].pc = "done", ![w].result = Ok("unit"),
                            ![w].cleaned = (removed = matching)]
    /\ UNCHANGED <<inodes, nsaves>> /\ StorFrame /\ UNCHANGED migVars

\* save has returned; the instance can be used again
SaveReturn(w) ==
    /\ st[w].pc = "done"
    /\ st' = [st EXCEPT ![w] = IdleStorage(st[w].config, st[w].result.ok)]
    /\ UNCHANGED <<dir, inodes, nsaves>> /\ StorFrame /\ UNCHANGED migVars

StorNext ==
    \/ \E w \in active, key \in Keys : Update(w, key)
    \/ \E w \in active : SaveBegin(w)
    \/ \E w \in active : CreateTmp(w)
    \/ \E w \in active : CreateFails(w)
    \/ \E w \in active : WriteChunk(w)
    \/ \E w \in active : WriteFails(w)
    \/ \E w \in active : Sync(w)
    \/ \E w \in active : SyncFails(w)
    \/ \E w \in active : RenameOk(w)
    \/ \E w \in active : RenameFails(w)
    \/ \E w \in active : RenameExhausted(w)
    \/ \E w \in active : cleanup_temp_files(w)
    \/ \E w \in active : SaveReturn(w)

(***************************************************************************)
(* One process calling one Storage value, call after call: a DirStorage    *)
(* (dir_storage.rs) or a FileStorage with its ConfigMigrator (storage.rs,  *)
(* migrator.rs).  Every call runs to its end before the next one starts.   *)
(***************************************************************************)
Formats == {"Json", "Toml"}
ENTITY_NAME == "task"      \* <T as Queryable>::ENTITY_NAME of the session's type
ConfigKeys == {"tasks"}    \* keys handed to update and query

\* serialize_content: serde_json::to_string_pretty, or json_to_toml and
\* toml::to_string_pretty.  A text is the value it encodes, in its format.
serialize_content(fmt, value) ==
    IF fmt = "Json" THEN Ok(to_string(value))
    ELSE Ok([k |-> "toml", v |-> value])

\* deserialize_content: serde_json::from_str, or toml::from_str and toml_to_json
deserialize_content(fmt, content) ==
    IF fmt = "Json" THEN from_str(content)
    ELSE IF content.k = "toml" THEN Ok(content.v)
    ELSE Err("TomlParseError", [what |-> "toml"])

\* what the file system lets a write do: all of it, or an error at
\* File::create, write_all, sync_all or at every rename attempt
\* ("ok_stale_left": all of it, but a stale temp file could not be removed)
IoOutcomes == {"ok", "ok_stale_left", "fail"}

\* DirStorage::atomic_write / the tail of FileStorage::save: the target holds
\* the new content once the rename succeeded, and what it held otherwise
atomic_write(old, content, io) ==
    IF io # "fail" THEN [result |-> Ok("unit"), file |-> content]
    ELSE [result |-> IoError("atomic_write", 0), file |-> old]

\* name.starts_with(&prefix)
name_starts_with(name, prefix) ==
    /\ Len(prefix) <= Len(name)
    /\ SubSeq(name, 1, Len(prefix)) = prefix

\* a cleanup that removes every file whose name starts with a dot
dir_cleanup_hidden_files(fs, target) ==
    [n \in FileNames |-> IF name_starts_with(n, <<".">>) THEN Absent ELSE fs[n]]

\* DirStorage::cleanup_temp_files: what is left of the base directory when
\* the files named .{file_name}.tmp.* are removed
dir_cleanup_temp_files(fs, target) ==
    LET prefix == <<".">> \o target \o <<".", "t", "m", "p", ".">>
    IN  [n \in FileNames |-> IF name_starts_with(n, prefix) THEN Absent ELSE fs[n]]

\* DirStorage::atomic_write on the base directory
dir_atomic_write(fs, target, content, io, cleanup) ==
    LET w == atomic_write(fs[target], content, io)
        written == [fs EXCEPT ![target] = w.file]
    IN  [result |-> w.result,
         files |-> IF cleanup /\ io = "ok"
                   THEN dir_cleanup_temp_files(written, target)
                   ELSE written]

\* DirStorage::save
dir_save(ps, savers, fs, fmt, ext, entity_name, id, entity, io, cleanup) ==
    LET json_string == save_domain_flat(ps, savers, entity_name, entity)
    IN  IF ~json_string.ok THEN [result |-> json_string, files |-> fs]
        ELSE LET versioned_value == from_str(json_string.v)
                 content == serialize_content(fmt, versioned_value.v)
                 file_path == id_to_path(fmt, ext, id)
             IN  IF ~file_path.ok THEN [result |-> file_path, files |-> fs]
                 ELSE dir_atomic_write(fs, file_path.v, content.v, io, cleanup)

\* DirStorage::load
dir_load(ps, fs, fmt, ext, entity_name, id) ==
    LET file_path == id_to_path(fmt, ext, id)
    IN  IF ~file_path.ok THEN file_path
        ELSE IF fs[file_path.v] = Absent THEN IoError("File not found", 0)
        ELSE LET value == deserialize_content(fmt, fs[file_path.v])
             IN  IF ~value.ok THEN value
                 ELSE load_flat_from(ps, entity_name, value.v).result

\* DirStorage::exists
exists(fs, fmt, ext, id) ==
    LET file_path == id_to_path(fmt, ext, id)
    IN  IF ~file_path.ok THEN file_path ELSE Ok(fs[file_path.v] # Absent)

\* a delete that reports a file that is not there
dir_delete_strict(fs, fmt, ext, id) ==
    LET file_path == id_to_path(fmt, ext, id)
    IN  IF ~file_path.ok THEN [result |-> file_path, files |-> fs]
        ELSE IF fs[file_path.v] = Absent
        THEN [result |-> IoError("File not found", 0), files |-> fs]
        ELSE [result |-> Ok("unit"), files |-> [fs EXCEPT ![file_path.v] = Absent]]

\* DirStorage::delete
dir_delete(fs, fmt, ext, id) ==
    LET file_path == id_to_path(fmt, ext, id)
    IN  IF ~file_path.ok THEN [result |-> file_path, files |-> fs]
        ELSE [result |-> Ok("unit"), files |-> [fs EXCEPT ![file_path.v] = Absent]]

\* every order a set of directory entries can be yielded in
RECURSIVE Orders(_)
Orders(entries) ==
    IF entries = {} THEN {<<>>}
    ELSE UNION {{<<first>> \o rest : rest \in Orders(entries \ {first})} :
                   first \in entries}

\* fs::read_dir(&self.base_path): the entries, in an order the file system picks
ReadDirOrders(fs) == Orders({n \in FileNames : fs[n] # Absent})

\* DirStorage::list_ids over the entries that read_dir yields
list_ids(entries, fmt, ext) ==
    LET listed == SelectSeq(entries,
                      LAMBDA n : /\ path_extension(n).some
                                 /\ path_extension(n).v = get_extension(fmt, ext))
    IN  Ok(sort([i \in 1..Len(listed) |-> path_file_stem(listed[i])]))

\* a load_all that leaves out the entities that fail to load
RECURSIVE load_all_skip_failed(_, _, _, _, _, _, _, _)
load_all_skip_failed(ps, fs, fmt, ext, entity_name, ids, i, results) ==
    IF i > Len(ids) THEN Ok(results)
    ELSE LET entity == dir_load(ps, fs, fmt, ext, entity_name, ids[i])
         IN  load_all_skip_failed(ps, fs, fmt, ext, entity_name, ids, i + 1,
                 IF entity.ok THEN Append(results, <<ids[i], entity.v>>) ELSE results)

\* DirStorage::load_all from the i-th listed id on: for id in ids { load(..)? }
RECURSIVE load_all_from(_, _, _, _, _, _, _, _)
load_all_from(ps, fs, fmt, ext, entity_name, ids, i, results) ==
    IF i > Len(ids) THEN Ok(results)
    ELSE LET entity == dir_load(ps, fs, fmt, ext, entity_name, ids[i])
         IN  IF ~entity.ok THEN entity
             ELSE load_all_from(ps, fs, fmt, ext, entity_name, ids, i + 1,
                                Append(results, <<ids[i], entity.v>>))

\* DirStorage::load_all
load_all(ps, fs, fmt, ext, entity_name, entries) ==
    LET ids == list_ids(entries, fmt, ext)
    IN  load_all_from(ps, fs, fmt, ext, entity_name, ids.v, 1, <<>>)

\* a field value serde_json::to_value fails on (a map whose keys are not strings)
Unserializable == [k |-> "unserializable", s |-> ""]

\* serde_json::to_value(&item) returns Ok
Serializes(item) == \A f \in DOMAIN item : item[f] # Unserializable

\* an update that stamps the version under the path's version key
update_stamping_version_key(ps, rt, key, data) ==
    LET latest_version == get_latest_version(ps, ENTITY_NAME)
    IN  IF latest_version = None
        THEN [result |-> Err("EntityNotFound", [entity |-> ENTITY_NAME]), root |-> rt]
        ELSE IF \E i \in 1..Len(data) : ~Serializes(data[i])
        THEN [result |-> Err("SerializationError", [what |-> "to_value"]), root |-> rt]
        ELSE LET items == [i \in 1..Len(data) |->
                              JObj(MapInsert(ToValue(data[i]).m,
                                             ps[ENTITY_NAME].version_key,
                                             JStr(latest_version)))]
             IN  [result |-> Ok("unit"), root |-> MapInsert(rt, key, JArr(items))]

\* an update that builds a new document around the array
update_new_document(ps, rt, key, data) ==
    LET latest_version == get_latest_version(ps, ENTITY_NAME)
    IN  IF latest_version = None
        THEN [result |-> Err("EntityNotFound", [entity |-> ENTITY_NAME]), root |-> rt]
        ELSE IF \E i \in 1..Len(data) : ~Serializes(data[i])
        THEN [result |-> Err("SerializationError", [what |-> "to_value"]), root |-> rt]
        ELSE LET items == [i \in 1..Len(data) |->
                              JObj(MapInsert(ToValue(data[i]).m, "version",
                                             JStr(latest_version)))]
             IN  [result |-> Ok("unit"), root |-> MapInsert(EmptyMap, key, JArr(items))]

\* ConfigMigrator::update: every item gets the field "version"
update(ps, rt, key, data) ==
    LET latest_version == get_latest_version(ps, ENTITY_NAME)
    IN  IF latest_version = None
        THEN [result |-> Err("EntityNotFound", [entity |-> ENTITY_NAME]), root |-> rt]
        ELSE IF \E i \in 1..Len(data) : ~Serializes(data[i])
        THEN [result |-> Err("SerializationError", [what |-> "to_value"]), root |-> rt]
        ELSE LET items == [i \in 1..Len(data) |->
                              JObj(MapInsert(ToValue(data[i]).m, "version",
                                             JStr(latest_version)))]
             IN  [result |-> Ok("unit"), root |-> MapInsert(rt, key, JArr(items))]

\* ConfigMigrator::query
query(ps, rt, key) ==
    IF key \notin DOMAIN rt THEN Ok(<<>>)
    ELSE IF rt[key].k # "arr"
    THEN Err("DeserializationError", [what |-> "not an array"])
    ELSE load_vec_flat_from(ps, ENTITY_NAME, rt[key].a).result

\* a save that writes the arrays of the document and nothing else
file_save_arrays_only(rt, dk, fmt, io) ==
    LET content == serialize_content(fmt,
                       JObj([key \in DOMAIN rt \cap ConfigKeys |-> rt[key]]))
    IN  atomic_write(dk, content.v, io)

\* FileStorage::save: config.as_value(), in the format, written atomically
file_save(rt, dk, fmt, io) ==
    LET content == serialize_content(fmt, JObj(rt))
    IN  atomic_write(dk, content.v, io)

LoadBehaviors == {"CreateIfMissing", "ErrorIfMissing"}

\* FileStorage::new and ConfigMigrator::from: the root the new value holds
file_new(dk, fmt, load_behavior) ==
    IF dk = Absent
    THEN IF load_behavior = "CreateIfMissing" THEN Ok(JObj(EmptyMap))
         ELSE IoError("File not found", 0)
    ELSE deserialize_content(fmt, dk)

\* The Migrator a session's Storage value is built with: nothing registered,
\* or "task" registered once or twice.
SessionChains == {<<"V1_0_0">>, <<"V1_1_0">>, <<"V1_0_0", "V1_1_0">>}

SessionPaths ==
    {BuildPath(ENTITY_NAME, custom, chain, withSave) :
        custom \in CustomKeys, chain \in SessionChains, withSave \in BOOLEAN}

NothingRegistered == [paths |-> EmptyMap, domain_savers |-> EmptyMap]

RegisteredOnce ==
    {register(EmptyMap, EmptyMap, None, None, p) : p \in SessionPaths}

RegisteredTwice ==
    {register(r.paths, r.domain_savers, None, None, p) :
        r \in RegisteredOnce, p \in SessionPaths}

SessionRegistries ==
    {[paths |-> r.paths, domain_savers |-> r.domain_savers] :
        r \in RegisteredOnce \cup RegisteredTwice}
    \cup {NothingRegistered}

\* the entities a session stores, and the lists it hands to update
SessionValues ==
    {[id |-> JStr("a"), description |-> JStr("x")],
     [id |-> JStr("b"), description |-> JStr("none")]}

SessionLists ==
    {<<[id |-> JStr("a"), description |-> JStr("x")]>>,
     <<[id |-> JStr("b"), description |-> JStr("none")],
       [id |-> JStr("a"), description |-> JStr("x")]>>,
     <<[id |-> JStr("a"), description |-> JStr("x")],
       [id |-> JStr("c"), description |-> Unserializable]>>}

\* DirStorage::new / FileStorage::new with a Migrator built beforehand
SessInit ==
    /\ \E r \in SessionRegistries :
        /\ paths = r.paths
        /\ domain_savers = r.domain_savers
    /\ default_version_key = None
    /\ default_data_key = None
    /\ mres = Idle
    /\ storage \in {"dir", "file"}
    /\ format \in Formats
    /\ extension = NoExtension
    /\ files = NoFiles
    /\ root = EmptyMap
    /\ disk = Absent
    /\ calls = <<>>

\* The Migrator of a DirStorage whose directory is looked at closely: "task"
\* registered with save support, versions 1.0.0 and 1.1.0.
DirectoryRegistry ==
    register(EmptyMap, EmptyMap, None, None,
             BuildPath(ENTITY_NAME, <<None, None>>, <<"V1_0_0", "V1_1_0">>, TRUE))

\* A base directory left by earlier runs: B holds an entity of version 1.0.0,
\* a holds bytes that do not parse, and a dead process left a's temp file.
PopulatedFiles(fmt, ext) ==
    [n \in FileNames |->
        IF n = id_to_path(fmt, ext, <<"B">>).v
        THEN serialize_content(fmt, JObj([version |-> JStr("1.0.0"),
                                          id |-> JStr("b")])).v
        ELSE IF n = id_to_path(fmt, ext, <<"a">>).v THEN Garbage
        ELSE IF n = StaleTempOf(id_to_path(fmt, ext, <<"a">>).v) THEN Garbage
        ELSE Absent]

\* DirStorageStrategy: default, and with_format(Toml).with_extension("dat")
DirectoryStrategies ==
    {<<"Json", NoExtension>>, <<"Toml", SomeExtension(<<"d", "a", "t">>)>>}

\* DirStorage::new on a base directory that was used before
DirectoryInit ==
    /\ paths = DirectoryRegistry.paths
    /\ domain_savers = DirectoryRegistry.domain_savers
    /\ default_version_key = None
    /\ default_data_key = None
    /\ mres = Idle
    /\ storage = "dir"
    /\ \E strategy \in DirectoryStrategies :
           /\ format = strategy[1]
           /\ extension = strategy[2]
    /\ files = PopulatedFiles(format, extension)
    /\ root = EmptyMap
    /\ disk = Absent
    /\ calls = <<>>

\* Documents a FileStorage finds on its path: other settings next to the
\* array, an array written at version 1.0.0, and a key that holds no array.
OldConfigs ==
    {[app_name |-> JStr("demo")],
     [app_name |-> JStr("demo"),
      tasks |-> JArr(<<JObj([version |-> JStr("1.0.0"), id |-> JStr("b")])>>)],
     [app_name |-> JStr("demo"), tasks |-> JStr("none")]}

\* FileStorage::new on a path with no file or with one of the documents
ConfigInit ==
    /\ \E r \in SessionRegistries :
        /\ paths = r.paths
        /\ domain_savers = r.domain_savers
    /\ default_version_key = None
    /\ default_data_key = None
    /\ mres = Idle
    /\ storage = "file"
    /\ format \in Formats
    /\ extension = NoExtension
    /\ files = NoFiles
    /\ disk \in {Absent} \cup {serialize_content(format, JObj(doc)).v : doc \in OldConfigs}
    /\ root = file_new(disk, format, "CreateIfMissing").v.m
    /\ calls = <<>>

SessFrame ==
    UNCHANGED <<migVars, dir, inodes, st, pidOf, active, retry_count,
                cleanup_tmp_files, nsaves, storage, format, extension>>

\* storage.save(ENTITY_NAME, id, entity) on the DirStorage
DirSave ==
    /\ storage = "dir" /\ Len(calls) < MaxCalls
    /\ \E id \in Ids, entity \in SessionValues, io \in IoOutcomes :
        LET r == dir_save(paths, domain_savers, files, format, extension,
                          ENTITY_NAME, id, entity, io, cleanup_tmp_files)
        IN  /\ files' = r.files
            /\ calls' = Append(calls, [op |-> "save", at |-> id, arg |-> entity,
                                       result |-> r.result])
    /\ UNCHANGED <<root, disk>> /\ SessFrame

\* storage.load(ENTITY_NAME, id) on the DirStorage
DirLoad ==
    /\ storage = "dir" /\ Len(calls) < MaxCalls
    /\ \E id \in Ids :
        calls' = Append(calls, [op |-> "load", at |-> id, arg |-> None,
                                result |-> dir_load(paths, files, format, extension,
                                                    ENTITY_NAME, id)])
    /\ UNCHANGED <<files, root, disk>> /\ SessFrame

\* storage.exists(id) on the DirStorage
DirExists ==
    /\ storage = "dir" /\ Len(calls) < MaxCalls
    /\ \E id \in Ids :
        calls' = Append(calls, [op |-> "exists", at |-> id, arg |-> None,
                                result |-> exists(files, format, extension, id)])
    /\ UNCHANGED <<files, root, disk>> /\ SessFrame

\* storage.delete(id) on the DirStorage
DirDelete ==
    /\ storage = "dir" /\ Len(calls) < MaxCalls
    /\ \E id \in Ids :
        LET r == dir_delete(files, format, extension, id)
        IN  /\ files' = r.files
            /\ calls' = Append(calls, [op |-> "delete", at |-> id, arg |-> None,
                                       result |-> r.result])
    /\ UNCHANGED <<root, disk>> /\ SessFrame

\* storage.list_ids() on the DirStorage
DirListIds ==
    /\ storage = "dir" /\ Len(calls) < MaxCalls
    /\ \E entries \in ReadDirOrders(files) :
        calls' = Append(calls, [op |-> "list_ids", at |-> None, arg |-> None,
                                result |-> list_ids(entries, format, extension)])
    /\ UNCHANGED <<files, root, disk>> /\ SessFrame

\* storage.load_all(ENTITY_NAME) on the DirStorage
DirLoadAll ==
    /\ storage = "dir" /\ Len(calls) < MaxCalls
    /\ \E entries \in ReadDirOrders(files) :
        calls' = Append(calls, [op |-> "load_all", at |-> None, arg |-> None,
                                result |-> load_all(paths, files, format, extension,
                                                    ENTITY_NAME, entries)])
    /\ UNCHANGED <<files, root, disk>> /\ SessFrame

\* storage.update(key, data) on the FileStorage
FileUpdate ==
    /\ storage = "file" /\ Len(calls) < MaxCalls
    /\ \E key \in ConfigKeys, data \in SessionLists :
        LET r == update(paths, root, key, data)
        IN  /\ root' = r.root
            /\ calls' = Append(calls, [op |-> "update", at |-> key, arg |-> data,
                                       result |-> r.result])
    /\ UNCHANGED <<files, disk>> /\ SessFrame

\* storage.query(key) on the FileStorage
FileQuery ==
    /\ storage = "file" /\ Len(calls) < MaxCalls
    /\ \E key \in ConfigKeys :
        calls' = Append(calls, [op |-> "query", at |-> key, arg |-> None,
                                result |-> query(paths, root, key)])
    /\ UNCHANGED <<files, root, disk>> /\ SessFrame

\* storage.save() on the FileStorage; arg is the document it was asked to write
FileSave ==
    /\ storage = "file" /\ Len(calls) < MaxCalls
    /\ \E io \in IoOutcomes :
        LET r == file_save(root, disk, format, io)
        IN  /\ disk' = r.file
            /\ calls' = Append(calls, [op |-> "save", at |-> Target,
                                       arg |-> JObj(root), result |-> r.result])
    /\ UNCHANGED <<files, root>> /\ SessFrame

\* storage.update_and_save(key, data): self.update(key, value)?; self.save()
FileUpdateAndSave ==
    /\ storage = "file" /\ Len(calls) + 1 < MaxCalls
    /\ \E key \in ConfigKeys, data \in SessionLists, io \in IoOutcomes :
        LET u == update(paths, root, key, data)
            r == file_save(u.root, disk, format, io)
            updated == Append(calls, [op |-> "update", at |-> key, arg |-> data,
                                      result |-> u.result])
        IN  /\ root' = u.root
            /\ disk' = IF u.result.ok THEN r.file ELSE disk
            /\ calls' = IF u.result.ok
                         THEN Append(updated, [op |-> "save", at |-> Target,
                                               arg |-> JObj(u.root), result |-> r.result])
                         ELSE updated
    /\ UNCHANGED files /\ SessFrame

\* FileStorage::new on the same path; the result is the root the new value holds
FileOpen ==
    /\ storage = "file" /\ Len(calls) < MaxCalls
    /\ \E load_behavior \in LoadBehaviors :
        calls' = Append(calls, [op |-> "open", at |-> Target, arg |-> None,
                                result |-> file_new(disk, format, load_behavior)])
    /\ UNCHANGED <<files, root, disk>> /\ SessFrame

DirNext ==
    \/ DirSave \/ DirLoad \/ DirExists \/ DirDelete \/ DirListIds \/ DirLoadAll

FileNext == FileUpdate \/ FileQuery \/ FileSave \/ FileUpdateAndSave \/ FileOpen

SessNext == DirNext \/ FileNext

vars == <<migVars, storVars>>

\* a Migrator with nothing registered and no call in flight
MigQuiet ==
    /\ paths = EmptyMap
    /\ domain_savers = EmptyMap
    /\ default_version_key = None
    /\ default_data_key = None
    /\ mres = Idle

\* a directory with no file and one unused FileStorage
StorIdle ==
    /\ inodes = <<>>
    /\ dir = [n \in Names |-> 0]
    /\ st = [w \in Writers |-> IdleStorage(EmptyDoc, FALSE)]
    /\ pidOf = [w \in Writers |-> 1]
    /\ active = {"w1"}
    /\ retry_count = 3
    /\ cleanup_tmp_files = TRUE
    /\ nsaves = 0

StorQuiet == StorIdle /\ SessQuiet

StorInit == \E instances \in {{"w1"}, Writers} : StorInitWith(instances)

Init == MigInit /\ StorInit
InitMigrator == MigInit /\ StorQuiet
InitStorage == MigQuiet /\ StorInitWith({"w1"})
InitWriters == MigQuiet /\ StorInitWith(Writers)
InitSession == StorIdle /\ SessInit
InitDirectory == StorIdle /\ DirectoryInit
InitConfig == StorIdle /\ ConfigInit
Next == MigNext \/ StorNext \/ SessNext
Spec == (Init \/ InitSession \/ InitDirectory \/ InitConfig) /\ [][Next]_vars

SpecMigrator == InitMigrator /\ [][MigNext]_vars
\* one FileStorage instance on the target
SpecStorage == InitStorage /\ [][StorNext]_vars
\* two FileStorage instances on the same target
SpecWriters == InitWriters /\ [][StorNext]_vars
\* one process calling one DirStorage or FileStorage
SpecSession == InitSession /\ [][SessNext]_vars
\* one process calling one DirStorage on a base directory
SpecDirectory == InitDirectory /\ [][DirNext]_vars
\* one process calling one FileStorage on a document
SpecConfig == InitConfig /\ [][FileNext]_vars

\* A Migrator is built by register calls and used through &self, or it was
\* moved into a FileStorage, which holds it from then on.
InitRegistry == InitMigrator \/ InitConfig
Owned == storage # "file"
OwnedRegister == Owned /\ Register
OwnedLoad == Owned /\ Load
OwnedLoadVec == Owned /\ LoadVec
OwnedSaveDomain == Owned /\ SaveDomain
OwnedSave == Owned /\ Save
OwnedReturn == Owned /\ Return
RegistryNext ==
    \/ OwnedRegister \/ OwnedLoad \/ OwnedLoadVec \/ OwnedSaveDomain \/ OwnedSave
    \/ OwnedReturn \/ FileNext
SpecRegistry == InitRegistry /\ [][RegistryNext]_vars

(***************************************************************************)
(* Properties of the Migrator.                                             *)
(***************************************************************************)
IsPrefix(s, t) == Len(s) <= Len(t) /\ \A i \in 1..Len(s) : s[i] = t[i]

IndexOf(versions, v) == CHOOSE i \in 1..Len(versions) : versions[i] = v

\* The load in mres read a tag that is one of the versions of the entity's path.
LoadWalked ==
    /\ mres.op = "load"
    /\ mres.entity \in DOMAIN paths
    /\ mres.tag # None
    /\ \E i \in 1..Len(paths[mres.entity].versions) :
           paths[mres.entity].versions[i] = mres.tag

\* The payload that load extracted from the document in mres.
LoadedPayload ==
    LET path == paths[mres.entity]
        m == mres.json.v.m
    IN  IF mres.flat THEN JObj(MapRemove(m, path.version_key)) ELSE m[path.data_key]

\* C2: a load of a payload tagged vi invokes the steps registered for
\* vi, v(i+1), ..., v(n-1) in the order of the path's version list, each once,
\* then finalize once at the terminal version; the caller gets a value only
\* from that finalize, and a payload of vi's shape always gets there.
C2_WalkFollowsVersionList ==
    LoadWalked =>
        LET path == paths[mres.entity]
            n == Len(path.versions)
            i == IndexOf(path.versions, mres.tag)
            expected == [j \in 1..(n - i) |->
                            [at |-> path.versions[i + j - 1],
                             step |-> path.steps[path.versions[i + j - 1]]]]
            startType == IF i < n THEN path.steps[mres.tag].from ELSE path.finalize
        IN  /\ IsPrefix(mres.trace, expected)
            /\ \A j \in 1..Len(mres.trace) :
                   /\ VERSION(mres.trace[j].step.from) = path.versions[i + j - 1]
                   /\ VERSION(mres.trace[j].step.to) = path.versions[i + j]
            /\ mres.finalized # <<>> =>
                   /\ mres.trace = expected
                   /\ mres.finalized = <<path.finalize>>
                   /\ VERSION(path.finalize) = path.versions[n]
            /\ mres.result.ok =>
                   /\ mres.finalized # <<>>
                   /\ DOMAIN mres.result.v = DomainFields
            /\ FromValue(FieldsOf(startType), LoadedPayload).ok => mres.result.ok

\* C2 witness: a load from the middle version of a three-version path has
\* returned Ok after running the one remaining step.
C2_Witness ==
    /\ LoadWalked
    /\ mres.result.ok
    /\ Len(paths[mres.entity].versions) = 3
    /\ mres.tag = paths[mres.entity].versions[2]
    /\ Len(mres.trace) = 1

AllSemver(versions) == \A i \in 1..Len(versions) : SemverValid(versions[i])

HasRepeat(versions) ==
    \E i, j \in 1..Len(versions) : i # j /\ versions[i] = versions[j]

StrictlyIncreasing(versions) ==
    \A i \in 1..Len(versions) : i + 1 <= Len(versions) =>
        SemverLess(SemverParse(versions[i]), SemverParse(versions[i + 1]))

\* C3: register succeeds iff every version is valid semver and the list is
\* strictly increasing without repeats (lists of length one included); a
\* repeat fails with CircularMigrationPath and a non-increasing pair of an
\* all-semver list without repeats with InvalidVersionOrder.
C3_ValidationIff ==
    mres.op = "register" =>
        LET versions == mres.path.versions
        IN  /\ mres.result.ok <=>
                   (AllSemver(versions) /\ ~HasRepeat(versions)
                        /\ StrictlyIncreasing(versions))
            /\ HasRepeat(versions) =>
                   (~mres.result.ok /\ mres.result.kind = "CircularMigrationPath")
            /\ (~HasRepeat(versions) /\ AllSemver(versions)
                    /\ ~StrictlyIncreasing(versions)) =>
                   (~mres.result.ok /\ mres.result.kind = "InvalidVersionOrder")

\* C4: a register call that returns an error leaves paths and domain_savers
\* as they were.
C4_FailedRegisterKeepsRegistry ==
    [][(mres'.op = "register" /\ ~mres'.result.ok) =>
           (paths' = paths /\ domain_savers' = domain_savers)]_vars

\* C4 witness: register failed while a path was registered under that name.
C4_Witness ==
    /\ mres.op = "register"
    /\ ~mres.result.ok
    /\ mres.entity \in DOMAIN paths
    /\ mres.entity \in DOMAIN domain_savers

FieldValues == {JStr("a"), JStr("b"), JStr("x"), JStr("none")}

\* from_domain and into_domain of type t undo each other.
MutuallyInverse(t) ==
    /\ \A d \in [DomainFields -> FieldValues] : IntoDomain(t, FromDomain(t, d)) = d
    /\ \A v \in [FieldsOf(t) -> FieldValues] : FromDomain(t, IntoDomain(t, v)) = v

\* C10: when the path's from_domain and into_domain are mutually inverse,
\* loading what save_domain (save_domain_flat) wrote gives back the domain
\* value, under any key override.
C10_RoundTrip ==
    (/\ mres.op = "save_domain"
     /\ mres.result.ok
     /\ domain_savers[mres.entity].save_fn = paths[mres.entity].finalize
     /\ MutuallyInverse(paths[mres.entity].finalize)) =>
        LET back == IF mres.flat THEN load_flat(paths, mres.entity, mres.result.v)
                                 ELSE load(paths, mres.entity, mres.result.v)
        IN  back.result = Ok(mres.domain)

(***************************************************************************)
(* FileStorage::save                                                       *)
(***************************************************************************)
SingleWriter == Cardinality(active) = 1
Saving(w) == w \in active /\ st[w].pc # "idle"
NewView(w) == [exists |-> TRUE, bytes |-> st[w].content]
TempFilesLeft == {n \in Names : starts_with_prefix(n) /\ dir[n] # 0}

\* C1: with a single writer, at every point of a save the target path holds
\* either what it held when the save began (or is still absent) or the
\* complete new content; the file the target names is never one the writer
\* still has open, so no reader can see it half written.
C1_ReaderSeesOldOrNew ==
    SingleWriter =>
        /\ FileView(Target).exists => IsComplete(FileView(Target).bytes)
        /\ \A w \in active :
            /\ Saving(w) => FileView(Target) \in {st[w].pre, NewView(w)}
            /\ st[w].fd # 0 => dir[Target] # st[w].fd

\* C1 witness: the temp file is half written while the target still holds
\* the complete old document.
C1_Witness ==
    /\ SingleWriter
    /\ \E w \in active :
        /\ st[w].pc = "write"
        /\ Len(inodes[st[w].fd]) = 1
        /\ st[w].content # Serialize(OldDoc)
        /\ FileView(Target) = Written(OldDoc)

\* C5 (as stated): a save whose rename failed on its first N < retry_count
\* attempts and then succeeded returns Ok, the target holds exactly the new
\* content, and no temp file for the target is left in the directory.
C5_RetryLeavesOneFile ==
    SingleWriter =>
        \A w \in active : st[w].pc = "done" =>
            /\ st[w].renamed <=> st[w].result.ok
            /\ st[w].result.ok =>
                /\ st[w].attempt < retry_count
                /\ FileView(Target) = NewView(w)
                /\ TempFilesLeft = {}

\* C5 (amended): such a save returns Ok, the target holds exactly the new
\* content and the temp file this save wrote is gone; no temp file at all is
\* left when cleanup_tmp_files is set and every removal succeeded.
C5_RetryReplacesTarget ==
    SingleWriter =>
        \A w \in active : st[w].pc = "done" =>
            /\ st[w].renamed <=> st[w].result.ok
            /\ st[w].result.ok =>
                /\ st[w].attempt < retry_count
                /\ FileView(Target) = NewView(w)
                /\ dir[st[w].tmp] = 0
                /\ (cleanup_tmp_files /\ st[w].cleaned) => TempFilesLeft = {}

\* C5 witness: one failed rename, then a successful one, and the cleanup
\* removed a temp file another process had left behind.
C5_Witness ==
    /\ SingleWriter
    /\ \E w \in active :
        /\ st[w].pc = "done"
        /\ st[w].result.ok
        /\ st[w].attempt = 1
        /\ st[w].cleaned
        /\ st[w].pre # NewView(w)
        /\ inodes[1] = SubSeq(Serialize(OldDoc), 1, 1)

\* C6: when every one of the retry_count rename attempts failed, save
\* returns an IoError that carries the attempt count, and the target holds
\* what it held before the save.
C6_ExhaustedRetriesReportIoError ==
    SingleWriter =>
        \A w \in active : (st[w].pc = "done" /\ st[w].exhausted) =>
            /\ st[w].result = IoError("rename", retry_count)
            /\ FileView(Target) = st[w].pre

\* C7: with two or more writers on one target, the target never holds
\* anything but a complete document, and two saves in progress never use
\* the same temp file.
C7_ConcurrentSavesAllOrNothing ==
    /\ FileView(Target).exists => IsComplete(FileView(Target).bytes)
    /\ \A w1, w2 \in active :
        (/\ w1 # w2
         /\ st[w1].pc \in {"write", "sync", "rename"}
         /\ st[w2].pc \in {"write", "sync", "rename"})
        => st[w1].tmp # st[w2].tmp

UpdatedKeys(w) == {k \in DOMAIN st[w].config : st[w].config[k] = w}

\* C8: when two FileStorage instances on one file have each updated and
\* saved their own key, the file holds both updates.
C8_NoLostUpdate ==
    \A w1, w2 \in active :
        (/\ w1 # w2
         /\ st[w1].pc = "idle" /\ st[w1].persisted /\ UpdatedKeys(w1) # {}
         /\ st[w2].pc = "idle" /\ st[w2].persisted /\ UpdatedKeys(w2) # {})
        => /\ FileView(Target).exists
           /\ IsComplete(FileView(Target).bytes)
           /\ \A w \in {w1, w2} : \A k \in UpdatedKeys(w) :
                /\ k \in DOMAIN FileView(Target).bytes[1].doc
                /\ FileView(Target).bytes[1].doc[k] = w

(***************************************************************************)
(* Further properties of the Migrator.                                     *)
(***************************************************************************)
\* The caller applies the first k transforms of the path by hand:
\* v0.migrate().migrate()... on the typed value.
RECURSIVE ManualMigrate(_, _, _, _)
ManualMigrate(path, value, i, k) ==
    IF i > k THEN value
    ELSE LET step == path.steps[path.versions[i]]
             typed == FromValue(FieldsOf(step.from), value).v
         IN  ManualMigrate(path, ToValue(Migrate(step.from, step.to, typed)), i + 1, k)

\* The document that carries payload under the tag version, in the layout
\* (nested or flat) and with the keys of the path.
Tagged(path, flat, version, payload) ==
    IF flat
    THEN Text(JObj(MapInsert(payload.m, path.version_key, JStr(version))))
    ELSE Text(JObj(MapInsert(MapInsert(EmptyMap, path.version_key, JStr(version)),
                             path.data_key, payload)))

\* The load in mres read the earliest version's tag and a payload of the
\* earliest version's shape.
LoadFromEarliest ==
    /\ LoadWalked
    /\ mres.tag = paths[mres.entity].versions[1]
    /\ LET path == paths[mres.entity]
           first == IF Len(path.versions) > 1 THEN path.steps[mres.tag].from
                    ELSE path.finalize
       IN  FromValue(FieldsOf(first), LoadedPayload).ok

\* C11: a load of a payload tagged with the earliest version returns the
\* same domain value as a load of the payload migrated by hand through the
\* first k transforms and tagged with the k-th later version, for every k
\* up to the terminal version.
C11_ChainEquivalence ==
    LoadFromEarliest =>
        LET path == paths[mres.entity]
        IN  /\ mres.result.ok
            /\ \A k \in 1..(Len(path.versions) - 1) :
                LET doc == Tagged(path, mres.flat, path.versions[k + 1],
                                  ManualMigrate(path, LoadedPayload, 1, k))
                    later == IF mres.flat THEN load_flat(paths, mres.entity, doc)
                                          ELSE load(paths, mres.entity, doc)
                IN  later.result = mres.result

\* C11 witness: a flat load from the earliest version of a three-version
\* path returned a domain value.
C11_Witness ==
    /\ LoadFromEarliest
    /\ mres.flat
    /\ mres.result.ok
    /\ Len(paths[mres.entity].versions) = 3

\* The registered path of entity holds type t at t's version.
PathHolds(entity, t) ==
    /\ entity \in DOMAIN paths
    /\ LET path == paths[entity]
       IN  \/ path.finalize = t
           \/ /\ VERSION(t) \in DOMAIN path.steps
              /\ path.steps[VERSION(t)].from = t

\* C12: the text save(v) returns is loaded and migrated by load for every
\* entity whose registered path contains v's version, whatever keys the
\* path was registered with.
C12_SavedTextLoads ==
    (mres.op = "save" /\ mres.result.ok) =>
        \A entity \in Entities :
            PathHolds(entity, mres.type) =>
                load(paths, entity, mres.result.v).result.ok

\* C13: load and load_flat of any text under a name that is not registered
\* fail with EntityNotFound(name).
C13_UnknownEntityNotFound ==
    (mres.op = "load" /\ mres.entity \notin DOMAIN paths) =>
        mres.result = Err("EntityNotFound", [entity |-> mres.entity])

\* C14: once the document is decoded and its tag is a version of the path,
\* a load that fails (in a step or in finalize) fails with
\* MigrationStepFailed.
C14_StepFailureKind ==
    (LoadWalked /\ ~mres.result.ok) => mres.result.kind = "MigrationStepFailed"

\* The load in mres read a tag that is none of the versions of the path.
LoadUnknownTag ==
    /\ mres.op = "load"
    /\ mres.entity \in DOMAIN paths
    /\ mres.tag # None
    /\ \A i \in 1..Len(paths[mres.entity].versions) :
           paths[mres.entity].versions[i] # mres.tag

\* C15: a load of a payload whose tag is not a version of the entity's path
\* fails with MigrationPathNotDefined{entity, version} and applies no step
\* and no finalize.
C15_UnknownTagRejected ==
    LoadUnknownTag =>
        /\ mres.result = Err("MigrationPathNotDefined",
                             [entity |-> mres.entity, version |-> mres.tag])
        /\ mres.trace = <<>>
        /\ mres.finalized = <<>>

\* The elements of the batch call in mres, and what a load of each alone returns.
BatchData == mres.json.v.a
BatchAlone(i) == load_item(paths, mres.entity, BatchData[i], mres.flat)
BatchFailing == {i \in 1..Len(BatchData) : ~BatchAlone(i).ok}
BatchParsed == mres.op = "load_vec" /\ from_str_vec(mres.json).ok

\* C16: a batch load returns Ok with one domain value per element, in input
\* order, iff every element loads; otherwise it returns the error of the
\* failing element of lowest index, no partial result, and no element after
\* that one is processed.
C16_BatchAllOrNothing ==
    BatchParsed =>
        IF BatchFailing = {}
        THEN /\ mres.result = Ok([i \in 1..Len(BatchData) |-> BatchAlone(i).v])
             /\ mres.processed = Len(BatchData)
        ELSE LET first == CHOOSE i \in BatchFailing : \A j \in BatchFailing : i <= j
             IN  /\ mres.result = BatchAlone(first)
                 /\ ~mres.result.ok
                 /\ mres.processed = first

\* a batch of two whose first element loads and whose second fails
C16_Witness ==
    /\ BatchParsed
    /\ Len(BatchData) = 2
    /\ BatchAlone(1).ok
    /\ ~BatchAlone(2).ok
    /\ mres.result = BatchAlone(2)

\* The versions written one after the other with " -> " between them.
RECURSIVE Arrowed(_)
Arrowed(versions) ==
    IF Len(versions) = 0 THEN ""
    ELSE IF Len(versions) = 1 THEN versions[1]
    ELSE versions[1] \o " -> " \o Arrowed(Tail(versions))

\* C17: a version list with a repeated version is rejected with
\* CircularMigrationPath{entity, path}, path being the whole list joined in
\* list order, whether or not the list is also mis-ordered or holds strings
\* that are not semver.
C17_RepeatIsCircular ==
    (mres.op = "register" /\ HasRepeat(mres.path.versions)) =>
        mres.result = Err("CircularMigrationPath",
                          [entity |-> mres.entity,
                           path |-> Arrowed(mres.path.versions)])

\* a rejected list that repeats a version and also has a pair out of order,
\* or one that repeats a version that is not semver
C17_Witness ==
    /\ mres.op = "register"
    /\ HasRepeat(mres.path.versions)
    /\ Len(mres.path.versions) = 3
    /\ \/ mres.path.versions = <<"1.1.0", "1.0.0", "1.1.0">>
       \/ mres.path.versions = <<"1.0.0", "beta", "beta">>
    /\ mres.result.kind = "CircularMigrationPath"

\* The object written by the save_domain call in mres that returned Ok.
SavedDomainObj == mres.result.v.v.m

\* C18: after any sequence of register calls, a save_domain or
\* save_domain_flat that succeeds stamps get_latest_version(entity), the
\* terminal version of the path now registered, under that path's resolved
\* version key.
C18_SaveDomainStampsLatest ==
    (mres.op = "save_domain" /\ mres.result.ok) =>
        /\ mres.entity \in DOMAIN paths
        /\ paths[mres.entity].version_key \in DOMAIN SavedDomainObj
        /\ SavedDomainObj[paths[mres.entity].version_key]
               = JStr(get_latest_version(paths, mres.entity))

\* The save_domain call in mres was made for an entity that has no saver:
\* never registered, or registered by paths built with into only.
NoSaveSupport == mres.op = "save_domain" /\ mres.entity \notin DOMAIN domain_savers

\* C19: save_domain and save_domain_flat return MigrationPathNotDefined when
\* the entity is not registered with save support or not registered at all.
C19_NoSaveSupportError ==
    NoSaveSupport => (~mres.result.ok /\ mres.result.kind = "MigrationPathNotDefined")

(***************************************************************************)
(* Properties of a session on one Storage value.                           *)
(***************************************************************************)
\* The calls before the n-th that wrote `at` with operation op and returned Ok.
WritesBefore(n, op, at) ==
    {m \in 1..(n - 1) : calls[m].op = op /\ calls[m].at = at /\ calls[m].result.ok}

LastOf(S) == CHOOSE m \in S : \A k \in S : k <= m

\* The n-th call reads `at`, and a write of it came before, with no delete
\* of it after the last such write.
ReadsOwnWrite(n, read, write, at) ==
    /\ calls[n].op = read
    /\ calls[n].at = at
    /\ WritesBefore(n, write, at) # {}
    /\ \A d \in WritesBefore(n, "delete", at) : d < LastOf(WritesBefore(n, write, at))

\* What the last write before the n-th call handed over.
LastWritten(n, write, at) == calls[LastOf(WritesBefore(n, write, at))].arg

\* The terminal version of the registered path carries the domain value
\* without loss, so that a value read back can be compared with the one written.
SessionLossless ==
    /\ ENTITY_NAME \in DOMAIN paths
    /\ MutuallyInverse(paths[ENTITY_NAME].finalize)

\* C20: calls made one after the other on one Storage value see the last
\* write before them.  On a DirStorage, load(e, id) after save(e, id, x1),
\* save(e, id, x2) and no delete in between returns x2; on a FileStorage,
\* query(key) after update(key, xs) returns xs, and a FileStorage opened on
\* the path after save holds the saved document (for types whose terminal
\* version carries the domain value without loss).
C20_ReadYourWrites ==
    SessionLossless =>
    \A n \in 1..Len(calls) :
        /\ \A id \in Ids :
            (storage = "dir" /\ ReadsOwnWrite(n, "load", "save", id)) =>
                calls[n].result = Ok(LastWritten(n, "save", id))
        /\ \A key \in ConfigKeys :
            (storage = "file" /\ ReadsOwnWrite(n, "query", "update", key)) =>
                calls[n].result = Ok(LastWritten(n, "update", key))
        /\ (storage = "file" /\ ReadsOwnWrite(n, "open", "save", Target)) =>
                calls[n].result = Ok(LastWritten(n, "save", Target))

\* The list is in ascending order of its strings, no id twice.
Ascending(ids) ==
    \A i, j \in 1..Len(ids) : i < j => StrLess(ids[i], ids[j])

\* No save and no delete was called between the m-th and the n-th call.
NoWriteBetween(m, n) ==
    \A k \in (m + 1)..(n - 1) : calls[k].op \notin {"save", "delete"}

\* C21: list_ids returns the ids in ascending lexical order, whatever order
\* the files were written in and whatever order the directory yields them
\* in, and two list_ids calls with no save or delete between them return the
\* same list.
C21_ListIdsSorted ==
    \A n \in 1..Len(calls) :
        calls[n].op = "list_ids" =>
            /\ calls[n].result.ok
            /\ Ascending(calls[n].result.v)
            /\ \A m \in 1..(n - 1) :
                   (calls[m].op = "list_ids" /\ NoWriteBetween(m, n)) =>
                       calls[m].result = calls[n].result

\* "a" is saved after "B" was, and two list_ids calls in a row both return B, a
C21_Witness ==
    /\ Len(calls) = 3
    /\ calls[1].op = "save" /\ calls[1].at = <<"a">> /\ calls[1].result.ok
    /\ calls[2].op = "list_ids" /\ calls[3].op = "list_ids"
    /\ calls[2].result = Ok(<<<<"B">>, <<"a">>>>)
    /\ calls[3].result = calls[2].result

FirstOf(S) == CHOOSE m \in S : \A k \in S : m <= k

\* What list_ids returns on the directory as it is now.
ListedNow ==
    list_ids(CHOOSE entries \in ReadDirOrders(files) : TRUE, format, extension).v

\* What load(ENTITY_NAME, id) returns on the directory as it is now.
LoadedNow(id) == dir_load(paths, files, format, extension, ENTITY_NAME, id)

\* The last call was load_all; the directory is as that call read it.
LoadAllReturned ==
    /\ storage = "dir" /\ Len(calls) > 0
    /\ calls[Len(calls)].op = "load_all"

\* C22: load_all is all or nothing.  It returns Ok exactly when the load of
\* every id of list_ids succeeds, and then with one (id, entity) pair per
\* listed id in list_ids order; otherwise it returns the error of the first
\* listed id whose load fails, and no pairs.
C22_LoadAllAllOrNothing ==
    LoadAllReturned =>
        LET result == calls[Len(calls)].result
            failing == {i \in 1..Len(ListedNow) : ~LoadedNow(ListedNow[i]).ok}
        IN  /\ result.ok <=> failing = {}
            /\ result.ok =>
                   result.v = [i \in 1..Len(ListedNow) |->
                                  <<ListedNow[i], LoadedNow(ListedNow[i]).v>>]
            /\ ~result.ok =>
                   result = LoadedNow(ListedNow[FirstOf(failing)])

\* load_all fails on the unreadable file of "a"; after "a" is saved it
\* returns the pairs of "B" and "a"
C22_Witness ==
    /\ Len(calls) = 3
    /\ calls[1].op = "load_all" /\ ~calls[1].result.ok
    /\ calls[2].op = "save" /\ calls[2].at = <<"a">> /\ calls[2].result.ok
    /\ calls[3].op = "load_all" /\ calls[3].result.ok
    /\ Len(calls[3].result.v) = 2
    /\ calls[3].result.v[1][1] = <<"B">> /\ calls[3].result.v[2][1] = <<"a">>

\* The characters Direct encoding lets through, among those of the model.
SafeChars == {"0", "B", "a", "d", "j", "l", "m", "n", "o", "p", "s", "t", "-", "_"}
ProbeChars == SafeChars \cup {".", "/"}
SafeId(id) == \A i \in 1..Len(id) : id[i] \in SafeChars

\* Ids of up to two characters, safe and unsafe ones in every position.
ProbeIds == {<<>>} \cup {<<c>> : c \in ProbeChars}
                   \cup {<<c, d>> : c \in ProbeChars, d \in ProbeChars}

\* encode_id lets exactly the safe ids through, as they are.
EncodeIdOnProbes ==
    \A id \in ProbeIds :
        encode_id(id) = IF SafeId(id) THEN Ok(id)
                        ELSE Err("FilenameEncoding", [id |-> id])

\* {id}.{extension} under the strategy of the storage
EntityFileOf(id) ==
    id \o <<".">> \o (IF extension.some THEN extension.v
                       ELSE IF format = "Json" THEN <<"j", "s", "o", "n">>
                       ELSE <<"t", "o", "m", "l">>)

\* This step is a call of save, load, exists or delete on the DirStorage.
IdCallStep ==
    /\ storage = "dir"
    /\ Len(calls') = Len(calls) + 1
    /\ calls'[Len(calls')].op \in {"save", "load", "exists", "delete"}

\* What a call with a safe id does to, or tells about, the file of the id.
OnEntityFile(call, file) ==
    CASE call.op = "save" ->
            /\ call.result.ok => files'[file] # Absent
            /\ ~call.result.ok => (call.result.kind = "IoError" /\ files'[file] = files[file])
      [] call.op = "load" ->
            /\ files' = files
            /\ call.result.ok => files[file] # Absent
            /\ files[file] = Absent => call.result = IoError("File not found", 0)
      [] call.op = "exists" ->
            /\ files' = files
            /\ call.result = Ok(files[file] # Absent)
      [] call.op = "delete" ->
            /\ call.result = Ok("unit")
            /\ files'[file] = Absent

AfterDelete(n, id) ==
    /\ WritesBefore(n, "delete", id) # {}
    /\ \A m \in WritesBefore(n, "save", id) : m < LastOf(WritesBefore(n, "delete", id))

\* The n-th call comes after a successful save of id with no delete of id
\* between the two.
AfterSave(n, id) ==
    /\ WritesBefore(n, "save", id) # {}
    /\ \A m \in WritesBefore(n, "delete", id) : m < LastOf(WritesBefore(n, "save", id))

\* C24: delete(id) returns Ok whether or not the file of id exists; from
\* then until the next save(id), exists(id) is false and load(id) fails with
\* IoError; after a successful save(id), exists(id) is true.
C24_DeleteIdempotent ==
    storage = "dir" =>
    \A n \in 1..Len(calls) :
        LET call == calls[n]
        IN  /\ (call.op = "delete" /\ SafeId(call.at)) => call.result = Ok("unit")
            /\ (call.op = "exists" /\ AfterDelete(n, call.at)) =>
                   call.result = Ok(FALSE)
            /\ (call.op = "load" /\ AfterDelete(n, call.at)) =>
                   (~call.result.ok /\ call.result.kind = "IoError")
            /\ (call.op = "exists" /\ AfterSave(n, call.at)) =>
                   call.result = Ok(TRUE)

\* "a" is deleted twice, the second time with no file there, and then
\* exists("a") is false
C24_Witness ==
    /\ Len(calls) = 3
    /\ \A n \in 1..2 : calls[n].op = "delete" /\ calls[n].at = <<"a">>
                        /\ calls[n].result = Ok("unit")
    /\ calls[3].op = "exists" /\ calls[3].at = <<"a">> /\ calls[3].result = Ok(FALSE)

(***************************************************************************)
(* Properties of the document a FileStorage holds.                         *)
(***************************************************************************)
\* This step is a call of update on the FileStorage, alone or as the first
\* half of update_and_save.
UpdateStep ==
    /\ storage = "file"
    /\ Len(calls') > Len(calls)
    /\ calls'[Len(calls) + 1].op = "update"

\* C25: update(key, data) changes only root[key].  When it succeeds the
\* document has the array of data under key and every other top-level field
\* as before; when it fails (the entity is not registered, or an item does
\* not serialize) the document is as before.
C25_UpdateTouchesOnlyKey ==
    [][UpdateStep =>
        LET call == calls'[Len(calls) + 1]
        IN  /\ call.result.ok <=>
                   /\ ENTITY_NAME \in DOMAIN paths
                   /\ \A i \in 1..Len(call.arg) : Serializes(call.arg[i])
            /\ call.result.ok =>
                   /\ DOMAIN root' = DOMAIN root \cup {call.at}
                   /\ \A field \in DOMAIN root \ {call.at} : root'[field] = root[field]
                   /\ root'[call.at].k = "arr"
                   /\ Len(root'[call.at].a) = Len(call.arg)
            /\ ~call.result.ok =>
                   /\ root' = root
                   /\ call.result.kind \in {"EntityNotFound", "SerializationError"}]_vars

\* one update failed on an item that does not serialize and left the
\* document as it was read; the next replaced the array and kept app_name
C25_Witness ==
    /\ storage = "file" /\ Len(calls) = 2
    /\ calls[1].op = "update" /\ ~calls[1].result.ok
    /\ calls[1].result.kind = "SerializationError"
    /\ calls[2].op = "update" /\ calls[2].result.ok
    /\ DOMAIN root = {"app_name", "tasks"}
    /\ root["app_name"] = JStr("demo")
    /\ root["tasks"].k = "arr" /\ Len(root["tasks"].a) = 2

\* C26: after update(key, data) succeeded, query(key) returns data: the same
\* length, order and values, for every registered entity whose terminal
\* version carries the fields of the domain type, whatever version key the
\* path resolved.
C26_QueryReturnsUpdate ==
    (storage = "file" /\ SessionLossless) =>
    \A n \in 1..Len(calls) :
        (calls[n].op = "query" /\ n > 1 /\ calls[n - 1].op = "update"
         /\ calls[n - 1].at = calls[n].at /\ calls[n - 1].result.ok) =>
            calls[n].result = Ok(calls[n - 1].arg)

(***************************************************************************)
(* Properties of the registry over its lifetime.                           *)
(***************************************************************************)
Registry == <<paths, domain_savers, default_version_key, default_data_key>>

\* C27: the registry is read-only once built.  No load, load_vec, save,
\* save_domain, ConfigMigrator query or update, or FileStorage operation
\* changes the registered paths, the domain savers or the default keys; a
\* step that changes any of them is a register call.
C27_RegistryReadOnly ==
    [][Registry' # Registry =>
          /\ mres = Idle
          /\ mres'.op = "register"
          /\ storage # "file"]_vars

\* a path was registered, and a later load through &self found the registry
\* as register left it
C27_Witness ==
    /\ ENTITY_NAME \in DOMAIN paths
    /\ mres.op = "load" /\ mres.entity = ENTITY_NAME /\ mres.result.ok

\* This step is a call on the FileStorage.
FileCallStep == storage = "file" /\ Len(calls') > Len(calls)

\* What FileStorage::new would read from the path after this step.
Reopened == file_new(disk', format, "ErrorIfMissing")

\* C28: update changes only the document in memory.  The file is as it was
\* after every update (and query and open); it changes only in a step that
\* ends with save, alone or as the second half of update_and_save, and a
\* save that returns Ok leaves in the file the whole document held in
\* memory, every top-level field of it; a save that fails leaves the file
\* as it was.
C28_UpdateInMemoryOnly ==
    [][FileCallStep =>
        LET last == calls'[Len(calls')]
        IN  /\ last.op # "save" => disk' = disk
            /\ (last.op = "save" /\ last.result.ok) => Reopened = Ok(JObj(root'))
            /\ (last.op = "save" /\ ~last.result.ok) => disk' = disk]_vars

\* after update the file still held the old document; after save it holds
\* app_name and the new array
C28_Witness ==
    /\ storage = "file" /\ Len(calls) = 3
    /\ calls[1].op = "update" /\ calls[1].result.ok
    /\ calls[2].op = "open" /\ calls[2].result.ok
    /\ "tasks" \notin DOMAIN calls[2].result.v.m
    /\ calls[3].op = "save" /\ calls[3].result.ok
    /\ DOMAIN root = {"app_name", "tasks"}
    /\ file_new(disk, format, "ErrorIfMissing") = Ok(JObj(root))

(***************************************************************************)
(* Properties of registered paths.                                         *)
(***************************************************************************)
\* The adjacent pairs of the list that are not strictly increasing.
OutOfOrder(versions) ==
    {i \in 1..(Len(versions) - 1) :
        ~SemverLess(SemverParse(versions[i]), SemverParse(versions[i + 1]))}

\* C29: when every version of the list parses as semver, no version is
\* repeated and some adjacent pair is not strictly increasing, register
\* fails with InvalidVersionOrder naming the path's entity and the first
\* such pair in list order.
C29_FirstPairOutOfOrder ==
    mres.op = "register" =>
        LET versions == mres.path.versions
        IN  (AllSemver(versions) /\ ~HasRepeat(versions) /\ OutOfOrder(versions) # {}) =>
                mres.result =
                    Err("InvalidVersionOrder",
                        [entity |-> mres.entity,
                         from |-> versions[FirstOf(OutOfOrder(versions))],
                         to |-> versions[FirstOf(OutOfOrder(versions)) + 1]])

\* 2.0.0, 1.1.0, 1.0.0 has two pairs out of order; register names the first
C29_Witness ==
    /\ mres.op = "register"
    /\ mres.path.versions = <<"2.0.0", "1.1.0", "1.0.0">>
    /\ ~mres.result.ok
    /\ mres.result.info.from = "2.0.0" /\ mres.result.info.to = "1.1.0"

\* The versions of the list that are not its last element.
NonTerminal(versions) == {versions[i] : i \in 1..(Len(versions) - 1)}

\* C30: in every path the registry holds, the versions that have a step
\* are the versions of the list without its last element; the step of the
\* i-th version starts at that version and leads to the (i+1)-th, and the
\* terminal version has no step.
C30_StepsFollowVersionList ==
    \A entity \in DOMAIN paths :
        LET path == paths[entity]
            versions == path.versions
        IN  /\ Len(versions) > 0
            /\ DOMAIN path.steps = NonTerminal(versions)
            /\ versions[Len(versions)] \notin DOMAIN path.steps
            /\ \A i \in 1..(Len(versions) - 1) :
                   /\ VERSION(path.steps[versions[i]].from) = versions[i]
                   /\ VERSION(path.steps[versions[i]].to) = versions[i + 1]

\* a path of three versions is registered: two steps, none at 2.0.0
C30_Witness ==
    /\ ENTITY_NAME \in DOMAIN paths
    /\ paths[ENTITY_NAME].versions = <<"1.0.0", "1.1.0", "2.0.0">>
    /\ DOMAIN paths[ENTITY_NAME].steps = {"1.0.0", "1.1.0"}

(***************************************************************************)
(* Properties of one load call.                                            *)
(***************************************************************************)
\* What the first j step calls of the load in mres returned, each fed with
\* the output of the one before: the j-th output, or the first error.
RECURSIVE Replayed(_)
Replayed(j) ==
    IF j = 0 THEN Ok(LoadedPayload)
    ELSE LET before == Replayed(j - 1)
         IN  IF ~before.ok THEN before ELSE ApplyStep(mres.trace[j].step, before.v)

\* The load in mres got as far as the chain walk.
LoadReachedWalk ==
    /\ mres.op = "load"
    /\ mres.entity \in DOMAIN paths
    /\ mres.tag # None

\* C31: within one load call each step function is called at most once; no
\* step is called after a step that returned an error; when a step returns
\* an error, load returns that error and finalize is not called; finalize is
\* called at most once, and when it returns an error load returns that error.
C31_NoRetryInLoad ==
    LoadReachedWalk =>
        LET n == Len(mres.trace)
        IN  /\ \A i, j \in 1..n : i < j => mres.trace[i] # mres.trace[j]
            /\ \A j \in 0..(n - 1) : Replayed(j).ok
            /\ Len(mres.finalized) <= 1
            /\ ~Replayed(n).ok =>
                   (mres.result = Replayed(n) /\ mres.finalized = <<>>)
            /\ (Replayed(n).ok /\ mres.finalized # <<>>
                 /\ ~ApplyFinalize(mres.finalized[1], Replayed(n).v).ok) =>
                   mres.result = ApplyFinalize(mres.finalized[1], Replayed(n).v)

\* the first step of a three-version path returned an error: one step call,
\* no second step, no finalize
C31_Witness ==
    /\ LoadReachedWalk
    /\ Len(paths[mres.entity].versions) = 3
    /\ mres.tag = paths[mres.entity].versions[1]
    /\ Len(mres.trace) = 1
    /\ ~mres.result.ok
    /\ mres.finalized = <<>>

(***************************************************************************)
(* Further properties of FileStorage::save.                                *)
(***************************************************************************)
TempSteps == {"create", "write", "sync"}
RenameAttempted(w) == st[w].attempt > 0 \/ st[w].renamed
TempFileFailed(w) ==
    /\ st[w].pc = "done"
    /\ \E op \in TempSteps : st[w].result = IoError(op, 0)

\* C32: the rename is attempted only when the temp file was created, holds
\* the whole new content and was synced and closed; a save whose create,
\* write or sync failed returns IoError, has attempted no rename, and the
\* target holds what it held when the save began.
C32_RenameOnlyAfterSync ==
    SingleWriter =>
        \A w \in active :
            /\ (st[w].pc = "rename" \/ RenameAttempted(w)) =>
                    /\ st[w].off = NChunks
                    /\ st[w].fd = 0
            /\ st[w].pc = "rename" => FileView(st[w].tmp) = NewView(w)
            /\ (st[w].pc \in TempSteps \/ TempFileFailed(w)) =>
                    /\ ~RenameAttempted(w)
                    /\ ~st[w].exhausted
                    /\ FileView(Target) = st[w].pre
            /\ (st[w].pc = "done" /\ ~RenameAttempted(w) /\ ~st[w].exhausted) =>
                    TempFileFailed(w)

\* C32 witness: write_all failed after the first chunk of a changed
\* document; the existing target still holds the old document.
C32_Witness ==
    /\ SingleWriter
    /\ \E w \in active :
        /\ st[w].result = IoError("write", 0)
        /\ st[w].pc = "done"
        /\ st[w].off = 1
        /\ st[w].pre = Written(OldDoc)
        /\ st[w].pre # NewView(w)
        /\ FileView(Target) = st[w].pre

\* rename attempts a save has made, the successful one included
Attempts(w) == st[w].attempt + (IF st[w].renamed THEN 1 ELSE 0)

\* an upper bound of the steps a save has left
Rank(s) ==
    CASE s.pc = "idle" -> 0
      [] s.pc = "done" -> 1
      [] s.pc = "cleanup" -> 2
      [] s.pc = "rename" -> 3 + (retry_count - s.attempt)
      [] s.pc = "sync" -> 4 + retry_count
      [] s.pc = "write" -> 5 + retry_count + (NChunks - s.off)
      [] s.pc = "create" -> 6 + retry_count + NChunks

\* C33: a save makes at most retry_count rename attempts and none after the
\* first that succeeded; it has slept once after each failed attempt but the
\* last possible one, so never after its last attempt; and every step of a
\* save lowers a bound on the steps it has left, so it ends within
\* 6 + retry_count + NChunks steps.
C33_BoundedRetries ==
    [][\A w \in active :
        /\ Attempts(w) <= retry_count
        /\ Rank(st[w]) >= 0
        /\ (st[w].pc # "idle" /\ st'[w] # st[w]) => Rank(st'[w]) < Rank(st[w])
        /\ (st[w].renamed /\ st'[w].pc # "idle") => Attempts(w)' = Attempts(w)
        /\ (st'[w].pc = "done" /\ Attempts(w)' > 0) => st'[w].sleeps = Attempts(w)' - 1
        /\ st'[w].sleeps <= st'[w].attempt
        /\ st'[w].sleeps # st[w].sleeps =>
                \/ st'[w].pc = "create"
                \/ st'[w].pc = "idle"
                \/ /\ st[w].pc = "rename" /\ st'[w].pc = "rename"
                   /\ st'[w].attempt = st[w].attempt + 1
                   /\ st'[w].attempt < retry_count
    ]_vars

\* C33 witness: every one of MaxRetry attempts failed; the save slept
\* between them and not after the last.
C33_Witness ==
    \E w \in active :
        /\ st[w].pc = "done"
        /\ st[w].exhausted
        /\ retry_count = MaxRetry
        /\ st[w].attempt = MaxRetry
        /\ st[w].sleeps = MaxRetry - 1

\* C34: once the rename has succeeded the save returns Ok, whatever the
\* cleanup could list or remove; with cleanup_tmp_files = false the save
\* never enters the cleanup and removes no temp file but the one it renamed.
C34_CleanupNeverSurfaced ==
    [][SingleWriter => \A w \in active :
        /\ (st[w].renamed /\ st[w].pc # "done") => st'[w].pc \in {"cleanup", "done"}
        /\ (st'[w].renamed /\ st'[w].pc = "done") => st'[w].result = Ok("unit")
        /\ st'[w].pc = "cleanup" => (cleanup_tmp_files /\ st'[w].renamed)
        /\ ~cleanup_tmp_files =>
                /\ ~st'[w].cleaned
                /\ \A n \in TempNames \ {st[w].tmp} : dir'[n] = dir[n]
    ]_vars

\* C34 witness: the rename succeeded, the cleanup could not remove a stale
\* temp file, and save returned Ok.
C34_Witness ==
    /\ SingleWriter
    /\ cleanup_tmp_files
    /\ \E w \in active :
        /\ st[w].pc = "done"
        /\ st[w].renamed
        /\ ~st[w].cleaned
        /\ TempFilesLeft # {}
        /\ st[w].result = Ok("unit")

(***************************************************************************)
(* Further properties of ConfigMigrator::update.                           *)
(***************************************************************************)
\* C35: after a successful update(key, data) every element of root[key] is
\* the object of its item with one field set on top: the field named
\* "version", holding the last version of the entity's registered path,
\* whatever version key that path resolved.
C35_UpdateStampsLiteralVersion ==
    [][(UpdateStep /\ calls'[Len(calls) + 1].result.ok) =>
        LET call == calls'[Len(calls) + 1]
            versions == paths[ENTITY_NAME].versions
            written == root'[call.at].a
        IN  /\ get_latest_version(paths, ENTITY_NAME) = versions[Len(versions)]
            /\ \A i \in 1..Len(written) :
                LET item == ToValue(call.arg[i]).m IN
                /\ written[i].k = "obj"
                /\ DOMAIN written[i].m = DOMAIN item \cup {"version"}
                /\ written[i].m["version"] = JStr(versions[Len(versions)])
                /\ \A f \in DOMAIN item \ {"version"} : written[i].m[f] = item[f]]_vars

\* C35 witness: an update succeeded for a path whose resolved version key
\* is not "version"; the elements carry "version" and not that key.
C35_Witness ==
    /\ storage = "file" /\ Len(calls) > 0
    /\ calls[Len(calls)].op = "update" /\ calls[Len(calls)].result.ok
    /\ Len(calls[Len(calls)].arg) = 2
    /\ paths[ENTITY_NAME].version_key \notin {"version", "id"}
    /\ Len(paths[ENTITY_NAME].versions) > 1
    /\ \A i \in 1..2 :
        /\ "version" \in DOMAIN root[calls[Len(calls)].at].a[i].m
        /\ paths[ENTITY_NAME].version_key \notin DOMAIN root[calls[Len(calls)].at].a[i].m

(***************************************************************************)
(* Saves of several processes on one target.                               *)
(***************************************************************************)
\* the save of w has created its temp file and not yet renamed it
TempInUse(w) == st[w].pc \in {"write", "sync", "rename"}

\* C36: while a save of one process is between creating its temp file and
\* renaming it, that temp file exists whatever the cleanup of a save by
\* another process does, so the rename finds it with the content written.
C36_CleanupSparesSavesInProgress ==
    \A w \in active :
        (/\ TempInUse(w)
         /\ \A other \in active \ {w} : pidOf[other] # pidOf[w])
        => /\ dir[st[w].tmp] # 0
           /\ st[w].pc = "rename" => FileView(st[w].tmp) = NewView(w)

(***************************************************************************)
(* Further properties of DirStorage.                                       *)
(***************************************************************************)
\* the ids saved and not deleted since, by the successful calls before call n
SavedBefore(n) ==
    {id \in Ids :
        \E i \in 1..(n - 1) :
            /\ calls[i].op = "save" /\ calls[i].result.ok /\ calls[i].at = id
            /\ \A j \in (i + 1)..(n - 1) :
                   ~(calls[j].op = "delete" /\ calls[j].result.ok /\ calls[j].at = id)}

\* C37: on a DirStorage whose directory was empty at first, every list_ids
\* call returns the ids saved and not deleted since by the successful calls
\* before it, each once, for every id save accepts.
C37_ListIdsIsSavedSet ==
    storage = "dir" =>
        \A n \in 1..Len(calls) :
            calls[n].op = "list_ids" =>
                /\ calls[n].result.ok
                /\ {calls[n].result.v[i] : i \in 1..Len(calls[n].result.v)} = SavedBefore(n)
                /\ Len(calls[n].result.v) = Cardinality(SavedBefore(n))

\* a save or delete call has been made
WriteCallStep ==
    /\ storage = "dir"
    /\ Len(calls') = Len(calls) + 1
    /\ calls'[Len(calls')].op \in {"save", "delete"}

\* .{file_name}.tmp.*: the temp files of a target
TempFileOf(name, target) ==
    name_starts_with(name, <<".">> \o target \o <<".", "t", "m", "p", ".">>)

\* C38: a save or delete of one id leaves every file of the base directory
\* as it was, except the entity file of that id and, for save, the temp
\* files of that file; the entity file of no other id is one of these, and
\* a call that rejects its id changes nothing.
C38_WritesTouchOneId ==
    [][WriteCallStep =>
        LET call == calls'[Len(calls')]
            target == EntityFileOf(call.at)
        IN  /\ ~SafeId(call.at) => files' = files
            /\ SafeId(call.at) =>
                \A n \in FileNames \ {target} :
                    /\ files'[n] # files[n] =>
                           /\ call.op = "save"
                           /\ TempFileOf(n, target)
                           /\ files'[n] = Absent
                    /\ n \in EntityFileNames => files'[n] = files[n]]_vars

\* C38 witness: after the empty id was saved, a save of "a" replaced a's
\* file and removed its stale temp file; the files of "" and "B" are as before.
C38_Witness ==
    /\ storage = "dir" /\ Len(calls) = 2
    /\ calls[1].op = "save" /\ calls[1].at = <<>> /\ calls[1].result.ok
    /\ calls[2].op = "save" /\ calls[2].at = <<"a">> /\ calls[2].result.ok
    /\ files[EntityFileOf(<<"a">>)] \notin {Absent, Garbage}
    /\ files[StaleTempOf(EntityFileOf(<<"a">>))] = Absent
    /\ files[EntityFileOf(<<>>)] # Absent
    /\ files[EntityFileOf(<<"B">>)] = PopulatedFiles(format, extension)[EntityFileOf(<<"B">>)]
    /\ files[EntityFileOf(<<"B">>)] # Absent

\* C39: for every retry_count, 0 included, a save ends with Ok or with a
\* MigrationError, never a panic; with retry_count = 0 a save that got as
\* far as the rename returns the rename's IoError and the target holds what
\* it held when the save began.
C39_SaveNeverPanics ==
    SingleWriter =>
        \A w \in active : st[w].pc = "done" =>
            /\ st[w].result.ok \/ st[w].result.kind = "IoError"
            /\ (retry_count = 0 /\ ~TempFileFailed(w)) =>
                    /\ st[w].result = IoError("rename", 0)
                    /\ FileView(Target) = st[w].pre

====
